---- MODULE Spec2Model ----
(***************************************************************************)
(* Verification model of webhooker's submission-processing engine: the     *)
(* durable action queue (src/db/action_queue.rs), the worker pool          *)
(* (src/worker.rs), the ingestion pipeline (src/submission/pipeline.rs,    *)
(* src/routes/ingest.rs) and the field sorter (src/submission/fields.rs).  *)
(*                                                                         *)
(* Three specifications share the variables:                               *)
(*   Spec        the action queue driven by enqueue calls and N workers    *)
(*   SpecIngest  HTTP ingest requests running the pipeline                 *)
(*   SpecFields  sort_fields applied to bounded payloads and field lists   *)
(***************************************************************************)
EXTENDS Integers, Sequences, FiniteSets, Bags, TLC

(* ------------------------------ bounds --------------------------------- *)
\* longest list of field definitions handed to sort_fields
MaxDefs == 2
\* number of ingest requests
MaxRequests == 2
\* most rows the action_queue table holds in the model
MaxQueue == 1
\* last second the wall clock reaches
MaxTime == 7

\* WEBHOOKER_WORKER_COUNT, default "2"
NumWorkers == 2

Workers == 1..NumWorkers

\* SQL NULL of a timestamp column
NULL == -1
\* SQL NULL of the last_error text column
NoError == "NULL"
\* a claim statement that has locked no row
NoRow == 0
\* a worker that holds no row
NoItem == [id |-> NoRow, action_id |-> NoRow, submission_id |-> NoRow,
           attempts |-> NoRow, max_attempts |-> NoRow]

VARIABLES
    now,            \* the database clock now(), in whole seconds
    action_queue,   \* table action_queue: sequence of rows, the index is the id
    action_log,     \* table action_log: a bag of rows
    worker_pc,      \* worker -> position inside run/process_next
    worker_lock,    \* worker -> id of the row its running claim statement has locked, or NoRow
    worker_item,    \* worker -> the row returned by its claim_next (item), or NoItem
    worker_status,  \* worker -> (status, error) of the current execution
    endpoint,       \* the endpoint row the ingest requests address
    actions,        \* table actions: the rows of that endpoint
    submissions,    \* table submissions: sequence of rows, the index is the id
    limiter,        \* SubmissionRateLimiter.entries: peer -> (count, window_start)
    requests,       \* ingest request -> its position in ingest/run and its locals
    sf_raw,         \* sort_fields: argument raw
    sf_defs,        \* sort_fields: argument field_defs
    sf_result,      \* sort_fields: the returned (data, extras)
    sf_pc,          \* sort_fields: "idle", "called" or "returned"
    checks,         \* ghost: the calls of SubmissionRateLimiter::check so far
    users,          \* table users: sequence of rows, the index is the id
    refresh_tokens, \* table refresh_tokens: a set of rows
    login_limiter,  \* LoginRateLimiter.entries: lowercased email -> (count, window_start)
    calls,          \* client -> the auth request it has in flight (or its last one)
    started,        \* ghost: the number of API requests started so far
    login_failures, \* ghost: lowercased email -> the wrong-password verdicts of its
                    \* 15-minute window (count, instant of the first)
    issued,         \* ghost: the refresh tokens generated so far; the index is the token
    tenants,        \* table tenants: sequence of rows, the index is the id
    advisory_lock,  \* pg advisory lock 1: the client whose transaction holds it, or NoHolder
    tables,         \* the tables behind the dashboard API: table -> (id -> row)
    inserted,       \* ghost: the table of every row inserted so far; the index is the id
                    \* (ids stand for uuids and are never reused)
    pending,        \* the dashboard request between its two statements, or NoRequest
    reply,          \* the dashboard request answered last, with its response
    system_mailer,  \* AppState.system_mailer: TRUE when the system SMTP is configured
    password_reset_tokens, \* table password_reset_tokens: a set of rows
    tasks,          \* the spawned forgot-password tasks that have not run: a bag of emails
    outbox,         \* the password-reset mails handed to the mailer: a set
    vu_url,         \* validate_url: argument url
    vu_mode,        \* validate_url: argument mode
    vu_cidrs,       \* validate_url: argument allowed_cidrs
    vu_addrs,       \* validate_url: local addrs
    vu_pc,          \* validate_url: "idle", "called", "resolve", "check" or "returned"
    vu_result,      \* validate_url: the returned Result
    tp_template,    \* template::render: argument template, as its tokens
    tp_ctx,         \* template::render: argument ctx
    tp_result,      \* template::render: the returned String
    tp_pc,          \* template::render: "idle", "called" or "returned"
    wh_config,      \* WebhookModule::execute: argument config (the action's config)
    wh_ctx,         \* WebhookModule::execute: argument ctx
    wh_pc,          \* WebhookModule::execute: position of the execution
    wh_url,         \* WebhookModule::execute: local url, the rendered url
    wh_req,         \* WebhookModule::execute: local req, the request being built
    wh_header,      \* WebhookModule::execute: the header the loop is at
    wh_sent,        \* the network: the requests client.send() has issued
    wh_status,      \* the (status, error) the caller of execute logs
    ip_peer,        \* extract_ip: argument peer_addr
    ip_xff,         \* extract_ip: the X-Forwarded-For lines of argument headers
    ip_proxies,     \* extract_ip: argument trusted_proxies
    ip_result,      \* extract_ip: the returned String, as the address it is the text of
    ip_pc,          \* extract_ip: "idle", "called" or "returned"
    shutdown,       \* the value of the watch channel main sends on
    run_pc,         \* worker -> position inside worker::run
    joined,         \* main: worker_pool.join() has returned
    flag_item,      \* ghost: worker -> id of the row it held when the flag was set
    wk_result,      \* ghost: worker -> what module.execute under the timeout gave last
    hp_data,        \* honeypot::is_spam: argument data
    hp_field,       \* honeypot::is_spam: argument honeypot_field
    hp_result,      \* honeypot::is_spam: the returned bool
    hp_pc,          \* honeypot::is_spam: "idle", "called" or "returned"
    actions_created, \* the number of rows ever inserted into table actions
    superseded      \* ghost: the refresh tokens generated for a user before a
                    \* password change of that user deleted the user's rows

queueVars == <<now, action_queue, action_log, worker_pc, worker_lock, worker_item, worker_status>>

ingestVars == <<endpoint, actions, submissions, limiter, requests>>

fieldVars == <<sf_raw, sf_defs, sf_result, sf_pc>>

limiterVars == <<checks>>

authVars == <<users, refresh_tokens, login_limiter, calls, started, login_failures, issued>>

regVars == <<tenants, advisory_lock>>

dashVars == <<tables, inserted, pending, reply>>

mailVars == <<system_mailer, password_reset_tokens, tasks, outbox>>

ssrfVars == <<vu_url, vu_mode, vu_cidrs, vu_addrs, vu_pc, vu_result>>

tplVars == <<tp_template, tp_ctx, tp_result, tp_pc>>

hookVars == <<wh_config, wh_ctx, wh_pc, wh_url, wh_req, wh_header, wh_sent, wh_status>>

ipVars == <<ip_peer, ip_xff, ip_proxies, ip_result, ip_pc>>

poolVars == <<shutdown, run_pc, joined, flag_item>>

execVars == <<wk_result>>

hpVars == <<hp_data, hp_field, hp_result, hp_pc>>

actVars == <<actions_created>>

pwVars == <<superseded>>

extraVars == <<execVars, hpVars, actVars, pwVars>>

\* the frames of the actions that change one of these groups
ExecOnly == UNCHANGED <<hpVars, actVars, pwVars>>
HpOnly == UNCHANGED <<execVars, actVars, pwVars>>
ActOnly == UNCHANGED <<execVars, hpVars, pwVars>>
PwOnly == UNCHANGED <<execVars, hpVars, actVars>>

moreVars == <<tplVars, hookVars, ipVars, poolVars, extraVars>>

restVars == <<dashVars, mailVars, ssrfVars, moreVars>>

apiVars == <<regVars, restVars>>

otherVars == <<limiterVars, authVars, apiVars>>

vars == <<queueVars, ingestVars, fieldVars, otherVars>>

(* ------------------------- action_queue table -------------------------- *)
\* column default of action_queue.max_attempts
DefaultMaxAttempts == 3

\* the row INSERT INTO action_queue (submission_id, action_id) creates:
\* every other column takes its column default
NewQueueRow(submission_id, action_id) ==
    [submission_id |-> submission_id,
     action_id     |-> action_id,
     status        |-> "pending",
     attempts      |-> 0,
     max_attempts  |-> DefaultMaxAttempts,
     last_error    |-> NoError,
     next_retry_at |-> now,
     completed_at  |-> NULL]

\* a row of action_log (the response column is not modelled); `by` is a ghost
\* column naming the writer
LogRow(action_id, submission_id, status, by) ==
    [action_id |-> action_id, submission_id |-> submission_id,
     status |-> status, by |-> by]

\* db::action_log::create
LogCreate(row) == action_log (+) SetToBag({row})

\* db::action_queue::enqueue
enqueue(submission_id, action_id) ==
    /\ Len(action_queue) < MaxQueue
    /\ action_queue' = Append(action_queue, NewQueueRow(submission_id, action_id))
    /\ UNCHANGED <<now, action_log, worker_pc, worker_lock, worker_item, worker_status>>
    /\ UNCHANGED <<ingestVars, fieldVars, otherVars>>

\* FOR UPDATE SKIP LOCKED: the row is not locked by a running claim statement
Locked(id) == \E w \in Workers : worker_lock[w] = id

Claimable_IncludesProcessing(row) ==
    /\ row.status \in {"pending", "failed", "processing"}
    /\ row.next_retry_at <= now

Claimable_IncludesCompleted(row) ==
    /\ row.status \in {"pending", "failed", "completed"}
    /\ row.next_retry_at <= now

\* WHERE status IN ('pending', 'failed') AND next_retry_at <= now()
Claimable(row) ==
    /\ row.status \in {"pending", "failed"}
    /\ row.next_retry_at <= now

SkipLocked_Ignored(ids) == ids

\* the rows the inner SELECT may lock
SkipLocked(ids) == {id \in ids : ~Locked(id)}

FirstByRetryAt_AnyOrder(ids) == ids

\* ORDER BY next_retry_at ASC LIMIT 1 (ties in any order)
FirstByRetryAt(ids) ==
    {id \in ids : \A other \in ids :
        action_queue[id].next_retry_at <= action_queue[other].next_retry_at}

ClaimCandidates ==
    FirstByRetryAt(SkipLocked({id \in DOMAIN action_queue : Claimable(action_queue[id])}))

\* claim_next, the inner SELECT ... FOR UPDATE SKIP LOCKED: lock one row.
\* With no candidate the statement returns no row and process_next returns
\* Ok(false); the worker sleeps and polls again, which changes no state.
\* The attempts counter is unbounded: the model follows a row up to one claim
\* beyond its max_attempts.
claim_next_select(w) ==
    /\ worker_pc[w] = "idle"
    /\ \E id \in ClaimCandidates :
        /\ action_queue[id].attempts <= action_queue[id].max_attempts
        /\ worker_lock' = [worker_lock EXCEPT ![w] = id]
    /\ worker_pc' = [worker_pc EXCEPT ![w] = "claim_update"]
    /\ UNCHANGED <<now, action_queue, action_log, worker_item, worker_status>>
    /\ UNCHANGED <<ingestVars, fieldVars, otherVars>>

\* claim_next, the outer UPDATE ... RETURNING *: the statement commits
claim_next_update(w) ==
    /\ worker_pc[w] = "claim_update"
    /\ LET id == worker_lock[w]
           row == [action_queue[id] EXCEPT !.status = "processing",
                                           !.attempts = @ + 1]
       IN /\ action_queue' = [action_queue EXCEPT ![id] = row]
          /\ worker_item' = [worker_item EXCEPT ![w] =
                                [id |-> id, action_id |-> row.action_id,
                                 submission_id |-> row.submission_id,
                                 attempts |-> row.attempts,
                                 max_attempts |-> row.max_attempts]]
    /\ worker_lock' = [worker_lock EXCEPT ![w] = NoRow]
    /\ worker_pc' = [worker_pc EXCEPT ![w] = "find_action"]
    /\ UNCHANGED <<now, action_log, worker_status>>
    /\ UNCHANGED <<ingestVars, fieldVars, otherVars>>

\* db::action_queue::mark_completed: the table after the UPDATE
mark_completed(id) ==
    [action_queue EXCEPT ![id].status = "completed", ![id].completed_at = now]

BackoffSecs_None(attempts) == 0

BackoffSecs_FromOne(attempts) == 2 ^ (attempts - 1)

\* let backoff_secs = 2_i64.pow(attempts as u32)
BackoffSecs(attempts) == 2 ^ attempts

\* db::action_queue::mark_failed: the table after the UPDATE
mark_failed(id, attempts, max_attempts, error) ==
    IF attempts >= max_attempts
    THEN [action_queue EXCEPT ![id].status = "failed",
                              ![id].last_error = error,
                              ![id].completed_at = now]
    ELSE [action_queue EXCEPT ![id].status = "failed",
                              ![id].last_error = error,
                              ![id].next_retry_at = now + BackoffSecs(attempts)]

(* ---------------------------- JSON payloads ---------------------------- *)
\* serde_json::Value at the top level of a payload member: the type and the
\* text of the value (nested arrays and objects are opaque)
JNull == [t |-> "null", v |-> "null"]
JStr(text) == [t |-> "string", v |-> text]
JNum(text) == [t |-> "number", v |-> text]
JArr(text) == [t |-> "array", v |-> text]

\* a payload: a JSON object with its members as <<key, value>> pairs, or
\* another JSON value
JObject(members) == [obj |-> TRUE, members |-> members, value |-> JNull]
JOther(value) == [obj |-> FALSE, members |-> {}, value |-> value]
EmptyObject == JObject({})

Keys(payload) == {m[1] : m \in payload.members}

\* Option<&Value> of endpoint.fields: NULL column, or a JSON value that is an
\* array of field definitions or something else; a definition is a JSON value
\* that may have a "name" member
NoFields == [present |-> FALSE, array |-> FALSE, defs |-> <<>>]
FieldsArray(defs) == [present |-> TRUE, array |-> TRUE, defs |-> defs]
FieldsNotArray == [present |-> TRUE, array |-> FALSE, defs |-> <<>>]
FieldDef(name) == [has_name |-> TRUE, name |-> name]
FieldDefNoName == [has_name |-> FALSE, name |-> JNull]

(* ------------------------ submission::fields --------------------------- *)
\* defs.as_array().unwrap_or(&Vec::new()).iter()
\*     .filter_map(|f| f.get("name").and_then(|n| n.as_str()))
defined_names(field_defs) ==
    IF field_defs.array
    THEN {field_defs.defs[i].name.v : i \in
            {j \in DOMAIN field_defs.defs :
                /\ field_defs.defs[j].has_name
                /\ field_defs.defs[j].name.t = "string"}}
    ELSE {}

sort_fields_AllToData(raw, field_defs) ==
    IF ~raw.obj \/ ~field_defs.present
    THEN [data |-> raw, extras |-> EmptyObject]
    ELSE [data   |-> JObject(raw.members),
          extras |-> JObject({m \in raw.members : m[1] \notin defined_names(field_defs)})]

\* sort_fields(raw, field_defs) -> (data, extras)
sort_fields(raw, field_defs) ==
    IF ~raw.obj \/ ~field_defs.present
    THEN [data |-> raw, extras |-> EmptyObject]
    ELSE [data   |-> JObject({m \in raw.members : m[1] \in defined_names(field_defs)}),
          extras |-> JObject({m \in raw.members : m[1] \notin defined_names(field_defs)})]

(* ----------------------- submission::honeypot -------------------------- *)
\* Option<&str> of settings["honeypot_field"].as_str()
NoHoneypot == [set |-> FALSE, name |-> ""]
Honeypot(name) == [set |-> TRUE, name |-> name]

is_spam_StringsOnly(data, honeypot_field) ==
    IF ~honeypot_field.set \/ honeypot_field.name = ""
    THEN FALSE
    ELSE \E m \in data.members :
            m[1] = honeypot_field.name /\ m[2].t = "string" /\ m[2].v # ""

\* is_spam(data, honeypot_field): data.get(field) is None for a payload that
\* is not an object
is_spam(data, honeypot_field) ==
    IF ~honeypot_field.set \/ honeypot_field.name = ""
    THEN FALSE
    ELSE \E m \in data.members :
            /\ m[1] = honeypot_field.name
            /\ IF m[2].t = "string" THEN m[2].v # ""
               ELSE m[2].t # "null"

(* ------------------------------ rate_limit ----------------------------- *)
\* settings["rate_limit"].as_u64().unwrap_or(10)
DefaultRateLimit == 10
\* settings["rate_limit_window_secs"].as_u64().unwrap_or(60)
DefaultRateWindowSecs == 60

\* a numeric setting of the endpoint: absent, or its value
Unset == [set |-> FALSE, value |-> 0]
Setting(value) == [set |-> TRUE, value |-> value]
UnwrapOr(setting, default) == IF setting.set THEN setting.value ELSE default

\* entries.entry(key).or_insert((0, now))
LimiterEntry(key) ==
    IF key \in DOMAIN limiter THEN limiter[key] ELSE [count |-> 0, start |-> now]

\* SubmissionRateLimiter::check: Ok(()) or Err(retry_after)
check_admits(key, limit, window_secs) ==
    \/ now - LimiterEntry(key).start > window_secs
    \/ LimiterEntry(key).count < limit

\* SubmissionRateLimiter::check: the entries after the call
check_entries(key, limit, window_secs) ==
    LET entry == LimiterEntry(key)
        after == IF now - entry.start > window_secs
                 THEN [count |-> 1, start |-> now]
                 ELSE IF entry.count >= limit
                      THEN entry
                      ELSE [entry EXCEPT !.count = @ + 1]
    IN [k \in DOMAIN limiter \cup {key} |-> IF k = key THEN after ELSE limiter[k]]

(* --------------------------- database tables --------------------------- *)
\* ActionRegistry: the ids of the registered modules
Registry == {"webhook", "email"}

\* the only endpoint id of the model
EndpointId == 1

\* the endpoint row; its settings are the keys ingest reads. The projects and
\* tenants tables are not modelled: the row stands for the endpoint with its
\* project and tenant.
EndpointRow ==
    [id |-> EndpointId,
     honeypot_field |-> NoHoneypot,
     redirect_url |-> FALSE,
     fields |-> FieldsArray(<<FieldDef(JStr("name"))>>),
     rate_limit |-> Unset,
     rate_limit_window_secs |-> Unset]

\* no endpoint row (or no project, or no tenant)
NoEndpoint == [EndpointRow EXCEPT !.id = NoRow, !.fields = NoFields]

\* the endpoint's rows of table actions
ActionsTable ==
    <<[id |-> 1, endpoint_id |-> EndpointId, position |-> 2, enabled |-> TRUE,
       action_type |-> "webhook"],
      [id |-> 2, endpoint_id |-> EndpointId, position |-> 1, enabled |-> TRUE,
       action_type |-> "sms"],
      [id |-> 3, endpoint_id |-> EndpointId, position |-> 0, enabled |-> FALSE,
       action_type |-> "webhook"]>>

ActionRow(id) == CHOOSE a \in {actions[i] : i \in DOMAIN actions} : a.id = id

\* a row of table submissions; `request` is a ghost column naming the ingest
\* request that created the row (NoRow: the row was there from the start)
SubmissionRow(data, extras, raw, request) ==
    [endpoint_id |-> EndpointId, data |-> data, extras |-> extras, raw |-> raw,
     request |-> request]

(* ----------------------------- worker pool ----------------------------- *)
NoStatus == [status |-> "none", error |-> NoError]

\* the (status, error_msg) pair process_next computes from module.execute
\* under the 30 s timeout: success; failed with the text of response.error (a
\* module error or "Action timed out after 30s"); failed with a response that
\* has no error string
ExecuteOutcomes ==
    {[status |-> "success", error |-> NoError],
     [status |-> "failed",  error |-> "response error"],
     [status |-> "failed",  error |-> "Unknown error"]}

WorkerGoto(w, pc) == worker_pc' = [worker_pc EXCEPT ![w] = pc]

\* process_next returns: the locals are dropped, run polls again
WorkerReturn(w) ==
    /\ worker_pc' = [worker_pc EXCEPT ![w] = "idle"]
    /\ worker_item' = [worker_item EXCEPT ![w] = NoItem]
    /\ worker_status' = [worker_status EXCEPT ![w] = NoStatus]

\* db::actions::find_by_id(item.action_id): Some(action), None, or Err (the
\* `?` returns from process_next)
find_action(w) ==
    /\ worker_pc[w] = "find_action"
    /\ \/ /\ \E i \in DOMAIN actions : actions[i].id = worker_item[w].action_id
          /\ WorkerGoto(w, "find_submission")
          /\ UNCHANGED <<worker_item, worker_status>>
       \/ /\ \A i \in DOMAIN actions : actions[i].id # worker_item[w].action_id
          /\ WorkerGoto(w, "action_missing")
          /\ worker_status' = [worker_status EXCEPT ![w] =
                [status |-> "failed",
                 error |-> "Action " \o ToString(worker_item[w].action_id) \o " not found"]]
          /\ UNCHANGED worker_item
       \/ WorkerReturn(w)
    /\ UNCHANGED <<now, action_queue, action_log, worker_lock>>
    /\ UNCHANGED <<ingestVars, fieldVars, otherVars>>

\* db::submissions::find_by_id(item.submission_id): Some(submission), None, or
\* Err
find_submission(w) ==
    /\ worker_pc[w] = "find_submission"
    /\ \/ /\ worker_item[w].submission_id \in DOMAIN submissions
          /\ WorkerGoto(w, "load_context")
          /\ UNCHANGED <<worker_item, worker_status>>
       \/ /\ worker_item[w].submission_id \notin DOMAIN submissions
          /\ WorkerGoto(w, "submission_missing")
          /\ worker_status' = [worker_status EXCEPT ![w] =
                [status |-> "failed",
                 error |-> "Submission " \o ToString(worker_item[w].submission_id)
                           \o " not found"]]
          /\ UNCHANGED worker_item
       \/ WorkerReturn(w)
    /\ UNCHANGED <<now, action_queue, action_log, worker_lock>>
    /\ UNCHANGED <<ingestVars, fieldVars, otherVars>>

\* endpoints::find_by_id(action.endpoint_id), then its project and tenant,
\* each with .ok().flatten(): all three present, or one of them missing. The
\* actions table does not change while the workers run, so ActionRow is the
\* row find_action returned.
load_context(w) ==
    /\ worker_pc[w] = "load_context"
    /\ \/ /\ endpoint.id = ActionRow(worker_item[w].action_id).endpoint_id
          /\ WorkerGoto(w, "execute")
          /\ UNCHANGED worker_status
       \/ /\ endpoint.id # ActionRow(worker_item[w].action_id).endpoint_id
          /\ WorkerGoto(w, "context_missing")
          /\ worker_status' = [worker_status EXCEPT ![w] =
                [status |-> "failed", error |-> "Failed to load action context"]]
    /\ UNCHANGED <<now, action_queue, action_log, worker_lock, worker_item>>
    /\ UNCHANGED <<ingestVars, fieldVars, otherVars>>

\* the action, submission or context is missing: mark_failed first, then
\* (not for a missing submission) action_log::create, then return Ok(true)
mark_failed_missing(w) ==
    /\ worker_pc[w] \in {"action_missing", "submission_missing", "context_missing"}
    /\ action_queue' = mark_failed(worker_item[w].id, worker_item[w].attempts,
                                   worker_item[w].max_attempts, worker_status[w].error)
    /\ IF worker_pc[w] = "submission_missing"
       THEN WorkerReturn(w)
       ELSE /\ WorkerGoto(w, "log_missing")
            /\ UNCHANGED <<worker_item, worker_status>>
    /\ UNCHANGED <<now, action_log, worker_lock>>
    /\ UNCHANGED <<ingestVars, fieldVars, otherVars>>

log_missing(w) ==
    /\ worker_pc[w] = "log_missing"
    /\ action_log' = LogCreate(LogRow(worker_item[w].action_id, worker_item[w].submission_id,
                                      "failed", "worker"))
    /\ WorkerReturn(w)
    /\ UNCHANGED <<now, action_queue, worker_lock>>
    /\ UNCHANGED <<ingestVars, fieldVars, otherVars>>

\* state.modules.get(&action.action_type) and module.execute under the timeout
execute(w) ==
    /\ worker_pc[w] = "execute"
    /\ LET action_type == ActionRow(worker_item[w].action_id).action_type
       IN IF action_type \in Registry
          THEN \E outcome \in ExecuteOutcomes :
                  worker_status' = [worker_status EXCEPT ![w] = outcome]
          ELSE worker_status' = [worker_status EXCEPT ![w] =
                  [status |-> "failed", error |-> "Unknown module: " \o action_type]]
    /\ WorkerGoto(w, "log")
    /\ UNCHANGED <<now, action_queue, action_log, worker_lock, worker_item>>
    /\ UNCHANGED <<ingestVars, fieldVars, otherVars>>

\* db::action_log::create(item.action_id, item.submission_id, status, response)
log_result(w) ==
    /\ worker_pc[w] = "log"
    /\ action_log' = LogCreate(LogRow(worker_item[w].action_id, worker_item[w].submission_id,
                                      worker_status[w].status, "worker"))
    /\ WorkerGoto(w, "mark")
    /\ UNCHANGED <<now, action_queue, worker_lock, worker_item, worker_status>>
    /\ UNCHANGED <<ingestVars, fieldVars, otherVars>>

\* if status == "success" { mark_completed } else { mark_failed }; Ok(true)
mark_result(w) ==
    /\ worker_pc[w] = "mark"
    /\ action_queue' =
         IF worker_status[w].status = "success"
         THEN mark_completed(worker_item[w].id)
         ELSE mark_failed(worker_item[w].id, worker_item[w].attempts,
                          worker_item[w].max_attempts, worker_status[w].error)
    /\ WorkerReturn(w)
    /\ UNCHANGED <<now, action_log, worker_lock>>
    /\ UNCHANGED <<ingestVars, fieldVars, otherVars>>

\* the clock is read only by claim_next (next_retry_at <= now()) and by the
\* rate limiter (window_start): some row waits for its retry time or some
\* limiter window is open
ClockObserved ==
    \/ \E id \in DOMAIN action_queue :
          action_queue[id].status = "failed" /\ action_queue[id].next_retry_at > now
    \/ \E k \in DOMAIN limiter :
          /\ limiter[k].count >= UnwrapOr(endpoint.rate_limit, DefaultRateLimit)
          /\ now - limiter[k].start <= UnwrapOr(endpoint.rate_limit_window_secs,
                                                DefaultRateWindowSecs)

\* one second of wall-clock time passes
Tick ==
    /\ now < MaxTime
    /\ ClockObserved
    /\ now' = now + 1
    /\ UNCHANGED <<action_queue, action_log, worker_pc, worker_lock, worker_item, worker_status>>
    /\ UNCHANGED <<ingestVars, fieldVars, otherVars>>

\* the ids of the submissions and actions callers enqueue work for
SubmissionIds == {1}
ActionIds == {1, 2}

\* a caller of the crate enqueues work for a submission and an action
Enqueue ==
    \E submission_id \in SubmissionIds, action_id \in ActionIds :
        enqueue(submission_id, action_id)

QueueIdle ==
    /\ now = 0
    /\ action_queue = <<>>
    /\ action_log = EmptyBag
    /\ worker_pc = [w \in Workers |-> "idle"]
    /\ worker_lock = [w \in Workers |-> NoRow]
    /\ worker_item = [w \in Workers |-> NoItem]
    /\ worker_status = [w \in Workers |-> NoStatus]

IngestIdle ==
    /\ endpoint = NoEndpoint
    /\ actions = <<>>
    /\ submissions = <<>>
    /\ limiter = <<>>
    /\ requests = <<>>

FieldsIdle ==
    /\ sf_raw = "none"
    /\ sf_defs = "none"
    /\ sf_result = "none"
    /\ sf_pc = "idle"

\* a client that has sent no request
NoCall ==
    [op |-> "none", pc |-> "done", name |-> "", email |-> "", password |-> "", token |-> 0,
     user |-> 0, response |-> [status |-> 0, body |-> "none"], granted |-> 0,
     locked |-> FALSE, after_logout |-> FALSE, after_replay |-> FALSE, raced |-> FALSE]

\* the clients; each has at most one request in flight
Clients == {"a", "b"}

AuthIdle ==
    /\ users = <<>>
    /\ refresh_tokens = {}
    /\ login_limiter = <<>>
    /\ calls = [c \in Clients |-> NoCall]
    /\ started = 0
    /\ login_failures = <<>>
    /\ issued = <<>>

\* no transaction holds the advisory lock
NoHolder == "none"

\* no dashboard request
NoRequest ==
[tenant |-> 0, op |-> "none", id |-> 0, status |-> 0, rows |-> {}]

\* no row in the dashboard's tables, no dashboard request
DashIdle ==
    /\ tables = [projects |-> <<>>, endpoints |-> <<>>, submissions |-> <<>>, actions |-> <<>>]
    /\ inserted = <<>>
    /\ pending = NoRequest
    /\ reply = NoRequest

\* no reset token, no task, no mail
MailIdle ==
    /\ system_mailer = FALSE
    /\ password_reset_tokens = {}
    /\ tasks = EmptyBag
    /\ outbox = {}

\* validate_url has not returned
NoResult == [ok |-> FALSE, error |-> "none"]

\* validate_url has not been called
SsrfIdle ==
    /\ vu_url = "none"
    /\ vu_mode = "none"
    /\ vu_cidrs = <<>>
    /\ vu_addrs = <<>>
    /\ vu_pc = "idle"
    /\ vu_result = NoResult

\* render has not been called
TplIdle ==
    /\ tp_template = <<>>
    /\ tp_ctx = "none"
    /\ tp_result = ""
    /\ tp_pc = "idle"

\* no request under construction
NoReq == [method |-> "none", url |-> "", headers |-> <<>>]

\* no webhook execution
HookIdle ==
    /\ wh_config = "none"
    /\ wh_ctx = "none"
    /\ wh_pc = "idle"
    /\ wh_url = ""
    /\ wh_req = NoReq
    /\ wh_header = 0
    /\ wh_sent = <<>>
    /\ wh_status = NoStatus

\* no address
NoIp == [v |-> 0, parts |-> <<>>]

\* extract_ip has not been called
IpIdle ==
    /\ ip_peer = NoIp
    /\ ip_xff = <<>>
    /\ ip_proxies = <<>>
    /\ ip_result = NoIp
    /\ ip_pc = "idle"

\* the run loops are not followed
PoolIdle ==
    /\ shutdown = FALSE
    /\ run_pc = [w \in Workers |-> "none"]
    /\ joined = FALSE
    /\ flag_item = [w \in Workers |-> NoRow]

\* Option<serde_json::Value>, the response of an ActionResult
ResponseNone == [some |-> FALSE, value |-> EmptyObject]
ResponseSome(value) == [some |-> TRUE, value |-> value]

\* no module has been executed
NoModuleResult == [kind |-> "none", status |-> "none", response |-> ResponseNone, message |-> ""]

ExecIdle ==
    /\ wk_result = [w \in Workers |-> NoModuleResult]

\* is_spam has not been called
HpIdle ==
    /\ hp_data = EmptyObject
    /\ hp_field = NoHoneypot
    /\ hp_result = FALSE
    /\ hp_pc = "idle"

\* the rows of table actions are those of ActionsTable, or none
ActIdle == actions_created = 0

\* no password has been changed
PwIdle == superseded = {}

ExtraIdle == ExecIdle /\ HpIdle /\ ActIdle /\ PwIdle

MoreIdle == TplIdle /\ HookIdle /\ IpIdle /\ PoolIdle /\ ExtraIdle

RestIdle == DashIdle /\ MailIdle /\ SsrfIdle /\ MoreIdle

\* an empty database
ApiIdle ==
    /\ tenants = <<>>
    /\ advisory_lock = NoHolder
    /\ RestIdle

OtherIdle ==
    /\ checks = <<>>
    /\ AuthIdle
    /\ ApiIdle

\* the database the workers read: the endpoint (with its project and tenant),
\* its actions and the submission are there, or have been deleted
QueueWorld ==
    /\ endpoint \in {NoEndpoint, EndpointRow}
    /\ actions \in {<<>>, ActionsTable}
    /\ submissions \in {<<>>, <<SubmissionRow(EmptyObject, EmptyObject, EmptyObject, NoRow)>>}
    /\ limiter = <<>>
    /\ requests = <<>>

Init == QueueIdle /\ QueueWorld /\ FieldsIdle /\ OtherIdle

Next ==
    \/ Enqueue
    \/ Tick
    \/ \E w \in Workers : claim_next_select(w)
    \/ \E w \in Workers : claim_next_update(w)
    \/ \E w \in Workers : find_action(w)
    \/ \E w \in Workers : find_submission(w)
    \/ \E w \in Workers : load_context(w)
    \/ \E w \in Workers : mark_failed_missing(w)
    \/ \E w \in Workers : log_missing(w)
    \/ \E w \in Workers : execute(w)
    \/ \E w \in Workers : log_result(w)
    \/ \E w \in Workers : mark_result(w)

Spec == Init /\ [][Next]_vars

(* ------------------------- properties of the queue --------------------- *)
\* worker w is between the claim of row id and its mark_completed/mark_failed
Holds(w, id) ==
    /\ worker_item[w].id = id
    /\ worker_pc[w] \in {"find_action", "find_submission", "load_context", "execute",
                         "log", "mark", "action_missing", "submission_missing",
                         "context_missing"}

\* this step is a claim_next that returns row id to worker w
ClaimReturns(w, id) ==
    /\ worker_pc[w] = "claim_update"
    /\ worker_pc'[w] = "find_action"
    /\ worker_item'[w].id = id

RowIds == DOMAIN action_queue

\* C1: a queue row is held by at most one worker at a time: while a worker
\* is between its claim of a row and its mark_completed/mark_failed the row is
\* processing and no other worker holds it, and no claim_next returns a row
\* whose status is processing.
C1_AtMostOneHolder ==
    /\ [](\A id \in RowIds : \A w1, w2 \in Workers :
            /\ Holds(w1, id) => action_queue[id].status = "processing"
            /\ (Holds(w1, id) /\ Holds(w2, id)) => w1 = w2)
    /\ [][\A id \in RowIds : \A w \in Workers :
            action_queue[id].status = "processing" => ~ClaimReturns(w, id)]_vars

\* a worker holds a row it has claimed again after a retry while another
\* worker polls the queue
C1_Witness ==
    \E id \in RowIds : \E w1, w2 \in Workers :
        /\ w1 # w2
        /\ Holds(w1, id)
        /\ action_queue[id].attempts >= 2
        /\ action_queue[id].next_retry_at <= now
        /\ worker_pc[w2] = "idle"

TerminalFailed(id) ==
    /\ action_queue[id].status = "failed"
    /\ action_queue[id].attempts >= action_queue[id].max_attempts
    /\ action_queue[id].last_error # NoError
    /\ action_queue[id].completed_at # NULL

\* C2: once a row is failed with attempts >= max_attempts (last_error and
\* completed_at set) no later claim_next returns it.
C2_TerminalFailedNeverClaimed ==
    [][\A id \in RowIds : \A w \in Workers :
        TerminalFailed(id) =>
            /\ ~ClaimReturns(w, id)
            /\ action_queue'[id].status = "failed"]_vars

\* C3: every queue row has attempts <= max_attempts.
C3_AttemptsWithinMax ==
    \A id \in RowIds : action_queue[id].attempts <= action_queue[id].max_attempts

\* C5: once a row is completed no claim_next returns it and its status never
\* changes again.
C5_CompletedIsFinal ==
    [][\A id \in RowIds : \A w \in Workers :
        action_queue[id].status = "completed" =>
            /\ ~ClaimReturns(w, id)
            /\ action_queue'[id].status = "completed"]_vars

\* a completed row whose retry time has passed while a worker polls
C5_Witness ==
    \E id \in RowIds : \E w \in Workers :
        /\ action_queue[id].status = "completed"
        /\ action_queue[id].completed_at # NULL
        /\ action_queue[id].next_retry_at <= now
        /\ worker_pc[w] = "idle"

\* C6: when mark_failed records the Nth failure of a row, N < max_attempts,
\* next_retry_at is at least 2^(N-1) seconds after now, and a failed row is
\* not returned by claim_next before its next_retry_at.
C6_BackoffAtLeast ==
    [][\A id \in RowIds :
        /\ ( /\ action_queue[id].status = "processing"
             /\ action_queue'[id].status = "failed"
             /\ action_queue[id].attempts < action_queue[id].max_attempts )
           => action_queue'[id].next_retry_at - now >= 2 ^ (action_queue[id].attempts - 1)
        /\ \A w \in Workers :
             ( /\ action_queue[id].status = "failed"
               /\ action_queue[id].attempts < action_queue[id].max_attempts
               /\ ClaimReturns(w, id) )
             => action_queue[id].next_retry_at <= now]_vars

\* the second failure of a row has been recorded, its retry time has not come
\* and a worker polls
C6_Witness ==
    \E id \in RowIds : \E w \in Workers :
        /\ action_queue[id].status = "failed"
        /\ action_queue[id].attempts = 2
        /\ action_queue[id].attempts < action_queue[id].max_attempts
        /\ action_queue[id].next_retry_at > now
        /\ worker_pc[w] = "idle"

(* --------------------- sort_fields on bounded inputs ------------------- *)
PayloadKeys == {"name", "email", "extra"}
PayloadValues == {JStr("x"), JNum("1")}

\* the objects with at most one member per key
ObjectsOver(keys, values) ==
    {JObject(members) : members \in
        {ms \in SUBSET (keys \X values) :
            \A m1, m2 \in ms : m1[1] = m2[1] => m1 = m2}}

RawInputs == ObjectsOver(PayloadKeys, PayloadValues) \cup {JOther(JArr("[1]")), JOther(JStr("x"))}

FieldDefInputs == {FieldDef(JStr("name")), FieldDef(JStr("email")), FieldDef(JNum("1")),
                   FieldDefNoName}

SeqsUpTo(S, n) == UNION {[1..k -> S] : k \in 0..n}

FieldsInputs ==
    {NoFields, FieldsNotArray} \cup {FieldsArray(defs) : defs \in SeqsUpTo(FieldDefInputs, MaxDefs)}

FieldsInit ==
    /\ sf_raw \in RawInputs
    /\ sf_defs \in FieldsInputs
    /\ sf_result = [data |-> EmptyObject, extras |-> EmptyObject]
    /\ sf_pc = "called"

SortFields ==
    /\ sf_pc = "called"
    /\ sf_result' = sort_fields(sf_raw, sf_defs)
    /\ sf_pc' = "returned"
    /\ UNCHANGED <<sf_raw, sf_defs>>
    /\ UNCHANGED <<queueVars, ingestVars, otherVars>>

InitFields == QueueIdle /\ IngestIdle /\ FieldsInit /\ OtherIdle

NextFields == SortFields

SpecFields == InitFields /\ [][NextFields]_vars

\* C10: for an endpoint with a fields value and an object payload, sort_fields
\* partitions the top-level keys: keys(data) are defined field names, no key
\* of extras is a defined field name, the key sets are disjoint, their union
\* is keys(raw), and every member keeps its value.
C10_SortFieldsPartitions ==
    (sf_pc = "returned" /\ sf_defs.present /\ sf_raw.obj) =>
        /\ sf_result.data.obj /\ sf_result.extras.obj
        /\ Keys(sf_result.data) \subseteq defined_names(sf_defs)
        /\ Keys(sf_result.extras) \cap defined_names(sf_defs) = {}
        /\ Keys(sf_result.data) \cap Keys(sf_result.extras) = {}
        /\ Keys(sf_result.data) \cup Keys(sf_result.extras) = Keys(sf_raw)
        /\ sf_result.data.members \cup sf_result.extras.members = sf_raw.members

\* a payload with a defined and an undefined key has been sorted
C10_Witness ==
    /\ sf_pc = "returned"
    /\ sf_defs.present /\ sf_defs.array /\ sf_raw.obj
    /\ Keys(sf_result.data) # {}
    /\ Keys(sf_result.extras) # {}
    /\ Keys(sf_raw) \cap defined_names(sf_defs) # {}
    /\ Keys(sf_raw) \ defined_names(sf_defs) # {}

(* -------------------------- ingestion pipeline ------------------------- *)
Orderings(S) ==
    {seq \in [1..Cardinality(S) -> S] : \A i, j \in DOMAIN seq : seq[i] = seq[j] => i = j}

\* db::actions::list_enabled_ordered: WHERE enabled = true ORDER BY position ASC
\* (rows of equal position in any order)
list_enabled_ordered ==
    {seq \in Orderings({actions[i].id : i \in {j \in DOMAIN actions : actions[j].enabled}}) :
        \A i, j \in DOMAIN seq :
            i < j => ActionRow(seq[i]).position <= ActionRow(seq[j]).position}

\* the endpoint rows the requests may address
EndpointInputs ==
    {[EndpointRow EXCEPT !.honeypot_field = honeypot_field, !.redirect_url = redirect_url] :
        honeypot_field \in {NoHoneypot, Honeypot("website")}, redirect_url \in BOOLEAN}

\* the request bodies: whether the Content-Type is a form type, whether the
\* body parses, and the parsed payload (a form body parses to string values)
BodyInputs ==
    {[form |-> FALSE, ok |-> TRUE,
      raw |-> JObject({<<"name", JStr("x")>>, <<"extra", JStr("x")>>})],
     [form |-> FALSE, ok |-> TRUE,
      raw |-> JObject({<<"name", JStr("x")>>, <<"website", JNum("1")>>})],
     [form |-> TRUE, ok |-> TRUE,
      raw |-> JObject({<<"name", JStr("x")>>, <<"website", JStr("")>>})],
     [form |-> TRUE, ok |-> TRUE,
      raw |-> JObject({<<"name", JStr("x")>>, <<"website", JStr("x")>>})],
     [form |-> FALSE, ok |-> FALSE, raw |-> EmptyObject]}

NoResponse == [status |-> 0, body |-> "none"]
Response(status, body) == [status |-> status, body |-> body]

\* the only peer address of the model
Peer == 1

SetRequest(r, fields) == requests' = [requests EXCEPT ![r] = fields @@ @]

\* a new request record, appended when the handler starts
NewRequest(body, fields) ==
    fields @@ [pc |-> "done", form |-> body.form, raw |-> body.raw, admitted |-> FALSE,
               spam |-> FALSE, submission_id |-> 0, todo |-> <<>>, status |-> "none",
               response |-> NoResponse]

HoneypotReturns_Never(raw) == FALSE

\* run, step 3: if honeypot::is_spam(&raw_data, honeypot_field) { return .. }
HoneypotReturns(raw) == is_spam(raw, endpoint.honeypot_field)

\* the Display text of a sqlx::Error
DbErrorText == "error returned from database: relation does not exist"

\* ingest: db::endpoints::find_by_id(..).await.map_err(..)? fails
find_endpoint_failed(body) ==
    /\ requests' = Append(requests,
          NewRequest(body, [response |-> Response(500, "Internal error")]))
    /\ UNCHANGED limiter

\* ingest and run up to the first database statement of run: the endpoint is
\* looked up (the row is read at this point; a database error is answered
\* 500), the body is parsed (an error is answered 400), then run checks the
\* rate limit (Err is answered 429) and the honeypot (spam returns
\* PipelineResult { submission_id: None, spam: true })
ingest_begin ==
    /\ Len(requests) < MaxRequests
    /\ \E body \in BodyInputs :
        LET limit == UnwrapOr(endpoint.rate_limit, DefaultRateLimit)
            window == UnwrapOr(endpoint.rate_limit_window_secs, DefaultRateWindowSecs)
            key == <<EndpointId, Peer>>
        IN \/ find_endpoint_failed(body)
           \/ IF ~body.ok
              THEN /\ requests' = Append(requests,
                         NewRequest(body, [response |-> Response(400, "parse error")]))
                   /\ UNCHANGED limiter
              ELSE /\ limiter' = check_entries(key, limit, window)
                   /\ requests' = Append(requests,
                         IF ~check_admits(key, limit, window)
                         THEN NewRequest(body, [response |-> Response(429, "Rate limited")])
                         ELSE IF HoneypotReturns(body.raw)
                              THEN NewRequest(body, [pc |-> "respond", admitted |-> TRUE,
                                                     spam |-> TRUE])
                              ELSE NewRequest(body, [pc |-> "persist", admitted |-> TRUE]))
    /\ UNCHANGED <<endpoint, actions, submissions>>
    /\ UNCHANGED <<queueVars, fieldVars, otherVars>>

\* ingest: the response for Err(e) of pipeline::run, e without "Rate limited"
\* (StatusCode::INTERNAL_SERVER_ERROR, Json(json!({"error": e})))
run_error_response(e) == Response(500, e)

\* run, steps 4 to 8: sort_fields and db::submissions::create; a database
\* error ends run with Err(format!("Failed to store submission: {e}")), which
\* ingest answers 500 with that text.
run_persist(r) ==
    /\ requests[r].pc = "persist"
    /\ \/ LET sorted == sort_fields(requests[r].raw, endpoint.fields)
          IN /\ submissions' = Append(submissions,
                    SubmissionRow(sorted.data, sorted.extras, requests[r].raw, r))
             /\ SetRequest(r, [pc |-> "list_actions", submission_id |-> Len(submissions) + 1])
       \/ /\ SetRequest(r, [pc |-> "done",
                            response |-> run_error_response(
                                "Failed to store submission: " \o DbErrorText)])
          /\ UNCHANGED submissions
    /\ UNCHANGED <<endpoint, actions, limiter>>
    /\ UNCHANGED <<queueVars, fieldVars, otherVars>>

\* run, step 9: list_enabled_ordered(...).unwrap_or_default(), then the project
\* and the tenant are loaded; without both no action is run
run_list_actions(r) ==
    /\ requests[r].pc = "list_actions"
    /\ \/ \E listed \in list_enabled_ordered :
            SetRequest(r, [pc |-> "actions", todo |-> listed])
       \/ SetRequest(r, [pc |-> "actions", todo |-> <<>>])
    /\ UNCHANGED <<endpoint, actions, submissions, limiter>>
    /\ UNCHANGED <<queueVars, fieldVars, otherVars>>

\* run, steps 9-10, for action in &actions: the registry lookup and
\* module.execute under the 30 s timeout
run_execute(r) ==
    /\ requests[r].pc = "actions"
    /\ requests[r].todo # <<>>
    /\ IF ActionRow(Head(requests[r].todo)).action_type \in Registry
       THEN \E outcome \in {"success", "failed"} :
                SetRequest(r, [pc |-> "log", status |-> outcome])
       ELSE SetRequest(r, [pc |-> "log", status |-> "skipped"])
    /\ UNCHANGED <<endpoint, actions, submissions, limiter>>
    /\ UNCHANGED <<queueVars, fieldVars, otherVars>>

\* run, step 10: db::action_log::create(action.id, submission.id, status, ..)
run_log(r) ==
    /\ requests[r].pc = "log"
    /\ action_log' = LogCreate(LogRow(Head(requests[r].todo), requests[r].submission_id,
                                      requests[r].status, "pipeline"))
    /\ SetRequest(r, [pc |-> "actions", todo |-> Tail(requests[r].todo), status |-> "none"])
    /\ UNCHANGED <<now, action_queue, worker_pc, worker_lock, worker_item, worker_status>>
    /\ UNCHANGED <<endpoint, actions, submissions, limiter>>
    /\ UNCHANGED <<fieldVars, otherVars>>

\* run, step 11, and the response of ingest: 303 for a form request when
\* redirect_url is set, 200 for spam, else 201
ingest_respond(r) ==
    /\ \/ requests[r].pc = "respond"
       \/ requests[r].pc = "actions" /\ requests[r].todo = <<>>
    /\ SetRequest(r, [pc |-> "done",
                      response |->
                        IF endpoint.redirect_url /\ requests[r].form
                        THEN Response(303, "redirect")
                        ELSE IF requests[r].spam
                             THEN Response(200, "ok")
                             ELSE Response(201, "created")])
    /\ UNCHANGED <<endpoint, actions, submissions, limiter>>
    /\ UNCHANGED <<queueVars, fieldVars, otherVars>>

IngestInit ==
    /\ endpoint \in EndpointInputs
    /\ actions = ActionsTable
    /\ submissions = <<>>
    /\ limiter = <<>>
    /\ requests = <<>>

InitIngest == QueueIdle /\ IngestInit /\ FieldsIdle /\ OtherIdle

RequestIds == DOMAIN requests

NextIngest ==
    \/ ingest_begin
    \/ \E r \in RequestIds : run_persist(r)
    \/ \E r \in RequestIds : run_list_actions(r)
    \/ \E r \in RequestIds : run_execute(r)
    \/ \E r \in RequestIds : run_log(r)
    \/ \E r \in RequestIds : ingest_respond(r)

SpecIngest == InitIngest /\ [][NextIngest]_vars

(* ------------------------ properties of ingestion ---------------------- *)
\* the queue rows of submission s and action a
QueueRows(s, a) ==
    {q \in DOMAIN action_queue :
        action_queue[q].submission_id = s /\ action_queue[q].action_id = a}

\* the number of action_log rows of submission s and action a with a status
LogRows(s, a, status) ==
    CopiesIn(LogRow(a, s, status, "pipeline"), action_log)
    + CopiesIn(LogRow(a, s, status, "worker"), action_log)

\* request r was accepted, its submission is stored and its handler has returned
Accepted(r) == requests[r].pc = "done" /\ requests[r].submission_id # 0

EnabledActionIds == {actions[i].id : i \in {j \in DOMAIN actions : actions[j].enabled}}
AllActionIds == {actions[i].id : i \in DOMAIN actions}

\* nothing is left to do for submission s and action a: each of its queue rows
\* is completed or terminally failed
Settled(s, a) ==
    \A q \in QueueRows(s, a) :
        action_queue[q].status = "completed" \/ TerminalFailed(q)

\* C4: an action whose every execution fails is executed exactly max_attempts
\* times for one submission: once nothing is left to do for it, the submission
\* has max_attempts action_log rows of status failed and its queue row is
\* terminal at status failed with attempts = max_attempts.
C4_FailingActionRunsMaxAttempts ==
    \A r \in RequestIds : \A a \in EnabledActionIds :
        ( /\ Accepted(r)
          /\ LogRows(requests[r].submission_id, a, "failed") >= 1
          /\ LogRows(requests[r].submission_id, a, "success") = 0
          /\ LogRows(requests[r].submission_id, a, "skipped") = 0
          /\ Settled(requests[r].submission_id, a) )
        => /\ LogRows(requests[r].submission_id, a, "failed") = DefaultMaxAttempts
           /\ \E q \in QueueRows(requests[r].submission_id, a) :
                /\ TerminalFailed(q)
                /\ action_queue[q].attempts = DefaultMaxAttempts

\* C7: for every accepted submission the pipeline has inserted exactly one
\* queue row per enabled action, pending with attempts 0, in ascending
\* position order, and none for a disabled action.
C7_OneQueueRowPerEnabledAction ==
    \A r \in RequestIds : Accepted(r) =>
        /\ \A a \in AllActionIds :
            Cardinality(QueueRows(requests[r].submission_id, a))
                = IF a \in EnabledActionIds THEN 1 ELSE 0
        /\ \A a \in EnabledActionIds : \A q \in QueueRows(requests[r].submission_id, a) :
            action_queue[q].status = "pending" /\ action_queue[q].attempts = 0
        /\ \A a, b \in EnabledActionIds :
            ActionRow(a).position < ActionRow(b).position =>
                \A qa \in QueueRows(requests[r].submission_id, a) :
                \A qb \in QueueRows(requests[r].submission_id, b) : qa < qb

\* C8: the ingestion pipeline executes no action module and writes no
\* action_log row: a request handler never holds the result of a module
\* execution and every action_log row was written by a worker.
C8_PipelineExecutesNoModule ==
    /\ \A r \in RequestIds : requests[r].status = "none" /\ requests[r].pc # "log"
    /\ \A row \in BagToSet(action_log) : row.by = "worker"

\* the honeypot flags the payload of request r, which passed the rate check
Flagged(r) ==
    requests[r].admitted /\ is_spam(requests[r].raw, endpoint.honeypot_field)

\* C9: a request flagged as spam by the honeypot is never persisted: no
\* submissions row, no queue row and no action execution results from it, and
\* it is answered with success (200 {"status":"ok"}, or the 303 redirect of a
\* form request).
C9_SpamNeverPersisted ==
    \A r \in RequestIds : Flagged(r) =>
        /\ requests[r].submission_id = 0
        /\ \A s \in DOMAIN submissions : submissions[s].request # r
        /\ requests[r].pc \in {"respond", "done"}
        /\ requests[r].todo = <<>> /\ requests[r].status = "none"
        /\ Len(action_queue) = 0
        /\ requests[r].pc = "done" =>
            \/ requests[r].response = Response(200, "ok")
            \/ /\ requests[r].response = Response(303, "redirect")
               /\ endpoint.redirect_url /\ requests[r].form

\* a spam request was answered 200 after another request was stored
C9_Witness ==
    \E r1, r2 \in RequestIds :
        /\ r1 < r2
        /\ Accepted(r1)
        /\ Flagged(r2)
        /\ requests[r2].pc = "done"
        /\ requests[r2].response = Response(200, "ok")
        /\ Len(submissions) = 1

(* ------------------- submission limiter and its sweeper ----------------- *)
\* most calls of a limiter's check in the model
MaxChecks == 3

\* let max_age = Duration::from_secs(30 * 60)
SweepMaxAge == 1800

\* the peer addresses of the limiter model
Peers == {1, 2}

\* the (rate_limit, rate_limit_window_secs) settings of the endpoint
LimitInputs == {Setting(0), Setting(1), Setting(2)}
WindowInputs == {Unset, Setting(3600)}

RateLimit == UnwrapOr(endpoint.rate_limit, DefaultRateLimit)
RateWindow == UnwrapOr(endpoint.rate_limit_window_secs, DefaultRateWindowSecs)

\* SubmissionRateLimiter::check: the Err value, window_secs.saturating_sub(elapsed)
check_retry_after(key, window_secs) ==
    LET elapsed == now - LimiterEntry(key).start
    IN IF window_secs > elapsed THEN window_secs - elapsed ELSE 0

\* run: Err(format!("Rate limited. Retry after {retry_after}s")), which ingest
\* answers with status 429 (the text contains "Rate limited") and the text
RateLimitedResponse(retry_after) ==
    Response(429, "Rate limited. Retry after " \o ToString(retry_after) \o "s")

\* SubmissionRateLimiter::cleanup: retain the entries younger than max_age
cleanup_entries(max_age) ==
    [k \in {key \in DOMAIN limiter : now - limiter[key].start < max_age} |-> limiter[k]]

\* a request of a peer reaches step 1 of run: the rate check. `checks` records
\* the call: the key, the instant, the window_start in force after the call,
\* the verdict and, for a denial, the response of ingest
limiter_check(peer) ==
    /\ Len(checks) < MaxChecks
    /\ LET key == <<EndpointId, peer>>
           admitted == check_admits(key, RateLimit, RateWindow)
       IN /\ limiter' = check_entries(key, RateLimit, RateWindow)
          /\ checks' = Append(checks,
                [key |-> key, at |-> now, start |-> limiter'[key].start,
                 admitted |-> admitted,
                 response |-> IF admitted THEN NoResponse
                              ELSE RateLimitedResponse(check_retry_after(key, RateWindow))])
    /\ UNCHANGED <<endpoint, actions, submissions, requests>>
    /\ UNCHANGED <<queueVars, fieldVars, authVars, apiVars>>

\* the sweeper task of main: every five minutes cleanup(max_age)
limiter_sweep ==
    /\ limiter' = cleanup_entries(SweepMaxAge)
    /\ UNCHANGED <<endpoint, actions, submissions, requests>>
    /\ UNCHANGED <<queueVars, fieldVars, otherVars>>

\* the instants after now at which a comparison of check or cleanup changes
\* for some entry: the last second of its window, the first second after it,
\* and the second it reaches the sweeper's max_age
LimiterInstants ==
    {t \in UNION {{limiter[k].start + RateWindow, limiter[k].start + RateWindow + 1,
                   limiter[k].start + SweepMaxAge} : k \in DOMAIN limiter} : t > now}

\* time passes up to one of these instants
limiter_elapse ==
    /\ \E t \in LimiterInstants : now' = t
    /\ UNCHANGED <<action_queue, action_log, worker_pc, worker_lock, worker_item, worker_status>>
    /\ UNCHANGED <<ingestVars, fieldVars, otherVars>>

LimiterInit ==
    /\ endpoint \in {[EndpointRow EXCEPT !.rate_limit = limit, !.rate_limit_window_secs = window] :
                        limit \in LimitInputs, window \in WindowInputs}
    /\ actions = <<>>
    /\ submissions = <<>>
    /\ limiter = <<>>
    /\ requests = <<>>

InitLimiter == QueueIdle /\ LimiterInit /\ FieldsIdle /\ OtherIdle

NextLimiter ==
    \/ \E peer \in Peers : limiter_check(peer)
    \/ limiter_sweep
    \/ limiter_elapse

SpecLimiter == InitLimiter /\ [][NextLimiter]_vars

(* ------------------- properties of the submission limiter -------------- *)
\* the checks of key that were admitted at an instant inside from..to
AdmittedIn(key, from, to) ==
    {j \in DOMAIN checks :
        /\ checks[j].key = key /\ checks[j].admitted
        /\ from <= checks[j].at /\ checks[j].at <= to}

\* C11: for each (endpoint, peer) key the limiter admits at most `limit`
\* checks within one window: for every window_start that was in force, at most
\* `limit` checks of the key are admitted from window_start until the window
\* has elapsed, and every denied check is answered 429 with a message
\* containing "Retry after".
C11_AtMostLimitPerWindow ==
    \A i \in DOMAIN checks :
        /\ Cardinality(AdmittedIn(checks[i].key, checks[i].start,
                                  checks[i].start + RateWindow)) <= RateLimit
        /\ ~checks[i].admitted =>
              \E secs \in 0..RateWindow :
                  checks[i].response = RateLimitedResponse(secs)

(* ------------------------------ login --------------------------------- *)
\* most auth requests started in the model
MaxCalls == 6

\* LoginRateLimiter: Duration::from_secs(15 * 60)
LoginWindowSecs == 900
\* LoginRateLimiter::check: if *count >= 5
LoginMaxFailures == 5

\* let expires_at = Utc::now() + Duration::days(7), in seconds
RefreshTtlSecs == 604800

\* str::to_lowercase on the emails of the model
to_lowercase(email) == IF email = "Admin@Test.com" THEN "admin@test.com" ELSE email

\* password::hash and password::verify (Argon2id): verify accepts exactly the
\* hashes of the same password
PasswordHash(password) == <<"argon2id", password>>
password_verify(password, hash) == hash = PasswordHash(password)

\* hash_token (SHA-256, hex)
hash_token(token) == <<"sha256", token>>

\* AppError::into_response: the status and the message of an error
AppError(kind, msg) ==
    CASE kind = "NotFound"     -> Response(404, msg)
      [] kind = "Unauthorized" -> Response(401, msg)
      [] kind = "Forbidden"    -> Response(403, msg)
      [] kind = "BadRequest"   -> Response(400, msg)
      [] kind = "RateLimited"  -> Response(429, msg)
      [] kind = "Internal"     -> Response(500, "Internal server error")

\* db::users::find_by_email: WHERE email = $1
find_by_email(email) == {id \in DOMAIN users : users[id].email = email}

login_check_admits_CeilingOffByOne(email) ==
    LET key == to_lowercase(email)
    IN \/ key \notin DOMAIN login_limiter
       \/ now - login_limiter[key].start > LoginWindowSecs
       \/ login_limiter[key].count <= LoginMaxFailures

\* LoginRateLimiter::check: Ok(()) or Err(retry_after)
login_check_admits(email) ==
    LET key == to_lowercase(email)
    IN \/ key \notin DOMAIN login_limiter
       \/ now - login_limiter[key].start > LoginWindowSecs
       \/ login_limiter[key].count < LoginMaxFailures

login_check_entries_Counting(email) ==
    LET key == to_lowercase(email)
    IN [k \in DOMAIN login_limiter \cup {key} |->
           IF k # key THEN login_limiter[k]
           ELSE IF key \in DOMAIN login_limiter
                THEN [login_limiter[key] EXCEPT !.count = @ + 1]
                ELSE [count |-> 1, start |-> now]]

\* LoginRateLimiter::check: the entries after the call (check takes the entry
\* with get and writes nothing)
login_check_entries(email) == login_limiter

\* LoginRateLimiter::record_failure: the entries after the call
record_failure(email) ==
    LET key == to_lowercase(email)
        entry == IF key \in DOMAIN login_limiter THEN login_limiter[key]
                 ELSE [count |-> 0, start |-> now]
        after == IF now - entry.start > LoginWindowSecs
                 THEN [count |-> 1, start |-> now]
                 ELSE [entry EXCEPT !.count = @ + 1]
    IN [k \in DOMAIN login_limiter \cup {key} |-> IF k = key THEN after ELSE login_limiter[k]]

\* LoginRateLimiter::cleanup
login_cleanup(max_age) ==
    [k \in {key \in DOMAIN login_limiter : now - login_limiter[key].start < max_age}
        |-> login_limiter[k]]

SetCall(c, fields) == calls' = [calls EXCEPT ![c] = fields @@ @]

\* a client may send its next request
Ready(c) == calls[c].pc = "done" /\ started < MaxCalls

\* generate_refresh_token, hash_token and db::refresh_tokens::create: a token
\* no one has seen before (the index of `issued`) and its row
NextToken == Len(issued) + 1

\* the row INSERT INTO refresh_tokens (user_id, token_hash, expires_at) creates
NewTokenRow(user_id) ==
    [id |-> NextToken, user_id |-> user_id, token_hash |-> hash_token(NextToken),
     used |-> FALSE, expires_at |-> now + RefreshTtlSecs]

\* ghost: the record of a generated token: the handler that generated it, the
\* token its request presented, and whether since then a logout has presented
\* it or a replay has revoked the sessions of its user
NewIssued(user_id, op, from) ==
    [user_id |-> user_id, op |-> op, from |-> from, logged_out |-> FALSE, revoked |-> FALSE]

create_refresh_token(user_id, op, from) ==
    /\ refresh_tokens' = refresh_tokens \cup {NewTokenRow(user_id)}
    /\ issued' = Append(issued, NewIssued(user_id, op, from))

\* AuthResponse { access_token, refresh_token } with the cookies
Granted(token) == Response(200, "tokens")

\* the emails and passwords clients log in with
LoginEmails == {"admin@test.com", "Admin@Test.com"}
Passwords == {"secret123", "wrong"}

\* ghost: the wrong-password verdicts of a key, counted in 15-minute windows
\* that start with the first verdict after the previous window has elapsed
FailureRecorded(key) ==
    LET fresh == \/ key \notin DOMAIN login_failures
                 \/ now - login_failures[key].first > LoginWindowSecs
        after == IF fresh THEN [count |-> 1, first |-> now]
                 ELSE [login_failures[key] EXCEPT !.count = @ + 1]
    IN [k \in DOMAIN login_failures \cup {key} |->
           IF k = key THEN after ELSE login_failures[k]]

\* ghost: five wrong-password verdicts were given for the key inside a window
\* that has not yet elapsed
FailureLocked(key) ==
    /\ key \in DOMAIN login_failures
    /\ login_failures[key].count >= LoginMaxFailures
    /\ now - login_failures[key].first <= LoginWindowSecs

\* login: the rate limit check; Err is answered 429
login_check(c) ==
    /\ Ready(c)
    /\ \E email \in LoginEmails, password \in Passwords :
        /\ login_limiter' = login_check_entries(email)
        /\ calls' = [calls EXCEPT ![c] =
              [NoCall EXCEPT !.op = "login", !.email = email, !.password = password,
                             !.locked = FailureLocked(to_lowercase(email)),
                             !.pc = IF login_check_admits(email) THEN "verify" ELSE "done",
                             !.response =
                                IF login_check_admits(email) THEN NoResponse
                                ELSE AppError("RateLimited",
                                       "Too many login attempts. Please try again later.")]]
    /\ started' = started + 1
    /\ UNCHANGED <<users, refresh_tokens, login_failures, issued>>
    /\ UNCHANGED <<queueVars, ingestVars, fieldVars, limiterVars, apiVars>>

\* login: find_by_email, password::verify and, for a wrong password,
\* record_failure; an unknown email and a wrong password are answered 401
login_verify(c) ==
    /\ calls[c].op = "login" /\ calls[c].pc = "verify"
    /\ IF find_by_email(calls[c].email) = {}
       THEN /\ SetCall(c, [pc |-> "done",
                           response |-> AppError("Unauthorized", "Invalid credentials")])
            /\ UNCHANGED <<login_limiter, login_failures>>
       ELSE LET id == CHOOSE id \in find_by_email(calls[c].email) : TRUE
            IN IF password_verify(calls[c].password, users[id].password_hash)
               THEN /\ SetCall(c, [pc |-> "issue", user |-> id])
                    /\ UNCHANGED <<login_limiter, login_failures>>
               ELSE /\ login_limiter' = record_failure(calls[c].email)
                    /\ login_failures' = FailureRecorded(to_lowercase(calls[c].email))
                    /\ SetCall(c, [pc |-> "done",
                          response |-> AppError("Unauthorized", "Invalid credentials")])
    /\ UNCHANGED <<users, refresh_tokens, started, issued>>
    /\ UNCHANGED <<queueVars, ingestVars, fieldVars, limiterVars, apiVars>>

\* login: the tokens are generated, the refresh token is stored and the
\* response carries both
login_issue(c) ==
    /\ calls[c].op = "login" /\ calls[c].pc = "issue"
    /\ create_refresh_token(calls[c].user, "login", 0)
    /\ SetCall(c, [pc |-> "done", granted |-> NextToken, response |-> Granted(NextToken)])
    /\ UNCHANGED <<users, login_limiter, started, login_failures>>
    /\ UNCHANGED <<queueVars, ingestVars, fieldVars, limiterVars, apiVars>>

\* the sweeper task of main: login_limiter.cleanup(max_age)
login_sweep ==
    /\ login_limiter' = login_cleanup(SweepMaxAge)
    /\ UNCHANGED <<users, refresh_tokens, calls, started, login_failures, issued>>
    /\ UNCHANGED <<queueVars, ingestVars, fieldVars, limiterVars, apiVars>>

\* the instants after now at which a comparison of the login limiter changes
LoginInstants ==
    {t \in UNION {{login_limiter[k].start + LoginWindowSecs,
                   login_limiter[k].start + LoginWindowSecs + 1,
                   login_limiter[k].start + SweepMaxAge} : k \in DOMAIN login_limiter} :
        t > now}

\* time passes up to one of these instants
login_elapse ==
    /\ \E t \in LoginInstants : now' = t
    /\ UNCHANGED <<action_queue, action_log, worker_pc, worker_lock, worker_item, worker_status>>
    /\ UNCHANGED <<ingestVars, fieldVars, otherVars>>

\* the user of the login model
AdminUser ==
    [tenant_id |-> 1, email |-> "admin@test.com", password_hash |-> PasswordHash("secret123")]

\* main: the default tenant and its admin, created when there is no user
DefaultTenant == [name |-> "Default", slug |-> "default"]
DefaultAdmin ==
    [tenant_id |-> 1, email |-> "admin@localhost", password_hash |-> PasswordHash("bootstrap")]

\* the tenant of that user
AdminTenant == [name |-> "Admin's Workspace", slug |-> "admin"]

\* the database after the first registration
ApiRegistered ==
    /\ tenants = <<AdminTenant>>
    /\ advisory_lock = NoHolder
    /\ RestIdle

LoginInit ==
    /\ checks = <<>>
    /\ users = <<AdminUser>>
    /\ refresh_tokens = {}
    /\ login_limiter = <<>>
    /\ calls = [c \in Clients |-> NoCall]
    /\ started = 0
    /\ login_failures = <<>>
    /\ issued = <<>>
    /\ ApiRegistered

InitLogin == QueueIdle /\ IngestIdle /\ FieldsIdle /\ LoginInit

NextLogin ==
    \/ \E c \in Clients : login_check(c)
    \/ \E c \in Clients : login_verify(c)
    \/ \E c \in Clients : login_issue(c)
    \/ login_sweep
    \/ login_elapse

SpecLogin == InitLogin /\ [][NextLogin]_vars

(* ------------------------- properties of login ------------------------- *)
\* the login request of client c supplies a wrong password for a registered email
WrongPassword(c) ==
    \E id \in find_by_email(calls[c].email) :
        ~password_verify(calls[c].password, users[id].password_hash)

\* C12: a login attempt that starts after five failed password logins for
\* its email inside a 15-minute window that has not elapsed is answered 429,
\* whatever password it supplies; an attempt that starts before that is never
\* answered 429, and with a wrong password it is answered 401.
C12_LockedAfterFiveFailures ==
    \A c \in Clients : calls[c].op = "login" =>
        /\ calls[c].locked => calls[c].pc = "done" /\ calls[c].response.status = 429
        /\ ~calls[c].locked => calls[c].response.status # 429
        /\ (~calls[c].locked /\ calls[c].pc = "done" /\ WrongPassword(c))
              => calls[c].response.status = 401

\* after five failed logins a login with the correct password is answered 429
\* while the other client's failed attempt of the window was answered 401
C12_Witness ==
    \E c, other \in Clients :
        /\ c # other
        /\ calls[c].op = "login" /\ calls[c].locked /\ calls[c].pc = "done"
        /\ calls[c].email = "admin@test.com" /\ calls[c].password = "secret123"
        /\ calls[c].response.status = 429
        /\ calls[other].op = "login" /\ WrongPassword(other)
        /\ calls[other].response.status = 401
        /\ login_limiter["admin@test.com"].count = LoginMaxFailures

\* the stored entry of some key is new or has changed
EntryWritten ==
    \E k \in DOMAIN login_limiter' :
        k \notin DOMAIN login_limiter \/ login_limiter'[k] # login_limiter[k]

\* this step is the verdict of client c on a wrong password
WrongPasswordVerdict(c) ==
    /\ calls[c].op = "login" /\ calls[c].pc = "verify" /\ WrongPassword(c)
    /\ calls'[c].pc = "done" /\ calls'[c].response.status = 401

\* C13: the login limiter's check never changes stored state and a login with
\* a correct password leaves the failure count unchanged: a step writes an
\* entry only when it is the verdict on a wrong password, and that verdict
\* raises the count of the email by one or restarts it at one.
C13_OnlyFailuresCount ==
    [][ /\ EntryWritten => \E c \in Clients : WrongPasswordVerdict(c)
        /\ \A c \in Clients : WrongPasswordVerdict(c) =>
              LET key == to_lowercase(calls[c].email)
              IN login_limiter'[key].count =
                    IF key \in DOMAIN login_limiter
                       /\ now - login_limiter[key].start <= LoginWindowSecs
                    THEN login_limiter[key].count + 1 ELSE 1 ]_vars

\* a login with the correct password was granted tokens while failures of its
\* email are on record
C13_Witness ==
    \E c \in Clients :
        /\ calls[c].op = "login" /\ calls[c].pc = "done"
        /\ calls[c].response.status = 200 /\ calls[c].granted # 0
        /\ to_lowercase(calls[c].email) \in DOMAIN login_limiter
        /\ login_limiter[to_lowercase(calls[c].email)].count >= 2
        /\ now - login_limiter[to_lowercase(calls[c].email)].start <= LoginWindowSecs

(* ------------------------- refresh and logout -------------------------- *)
\* most refresh and logout requests started in the model
MaxTokenCalls == 3

\* a client may send its next refresh or logout request
TokenReady(c) == calls[c].pc = "done" /\ started < MaxTokenCalls

\* the refresh_token cookie of a request: a token generated earlier, or none
NoCookie == 0
Cookies == DOMAIN issued \cup {NoCookie}

\* db::refresh_tokens::find_by_hash
find_by_hash(token_hash) == {row \in refresh_tokens : row.token_hash = token_hash}

\* db::refresh_tokens::mark_used: UPDATE .. SET used = true WHERE id = $1
mark_used(id) ==
    {IF row.id = id THEN [row EXCEPT !.used = TRUE] ELSE row : row \in refresh_tokens}

delete_all_for_user_None(user_id) == refresh_tokens

\* db::refresh_tokens::delete_all_for_user
delete_all_for_user(user_id) == {row \in refresh_tokens : row.user_id # user_id}

delete_by_hash_None(token_hash) == refresh_tokens

\* db::refresh_tokens::delete_by_hash
delete_by_hash(token_hash) == {row \in refresh_tokens : row.token_hash # token_hash}

\* refresh: the cookie is read and find_by_hash runs; no cookie and no row
\* are answered 401, a used row leads to the revocation, an expired row is
\* answered 401, otherwise the row is to be marked used
refresh_find(c) ==
    /\ TokenReady(c)
    /\ \E cookie \in Cookies :
        LET rows == find_by_hash(hash_token(cookie))
            stored == CHOOSE row \in rows : TRUE
            call == [NoCall EXCEPT !.op = "refresh", !.token = cookie,
                        !.after_logout = cookie # NoCookie /\ issued[cookie].logged_out,
                        !.after_replay = cookie # NoCookie /\ issued[cookie].revoked]
        IN calls' = [calls EXCEPT ![c] =
              IF cookie = NoCookie
              THEN [call EXCEPT !.response = AppError("Unauthorized", "Missing refresh token")]
              ELSE IF rows = {}
              THEN [call EXCEPT !.response = AppError("Unauthorized", "Invalid refresh token")]
              ELSE IF stored.used
              THEN [call EXCEPT !.pc = "revoke", !.user = stored.user_id]
              ELSE IF stored.expires_at < now
              THEN [call EXCEPT !.response = AppError("Unauthorized", "Refresh token expired")]
              ELSE [call EXCEPT !.pc = "mark", !.user = stored.user_id]]
    /\ started' = started + 1
    /\ UNCHANGED <<users, refresh_tokens, login_limiter, login_failures, issued>>
    /\ UNCHANGED <<queueVars, ingestVars, fieldVars, limiterVars, apiVars>>

\* refresh, stored.used: delete_all_for_user, then 401
refresh_revoke(c) ==
    /\ calls[c].op = "refresh" /\ calls[c].pc = "revoke"
    /\ refresh_tokens' = delete_all_for_user(calls[c].user)
    /\ issued' = [n \in DOMAIN issued |->
                    IF issued[n].user_id = calls[c].user
                    THEN [issued[n] EXCEPT !.revoked = TRUE] ELSE issued[n]]
    /\ SetCall(c, [pc |-> "done",
                    response |-> AppError("Unauthorized",
                                   "Refresh token reuse detected. All sessions revoked.")])
    /\ UNCHANGED <<users, login_limiter, started, login_failures>>
    /\ UNCHANGED <<queueVars, ingestVars, fieldVars, limiterVars, apiVars>>

\* refresh: mark_used(stored.id)
refresh_mark(c) ==
    /\ calls[c].op = "refresh" /\ calls[c].pc = "mark"
    /\ refresh_tokens' = mark_used(calls[c].token)
    /\ SetCall(c, [pc |-> "issue"])
    /\ UNCHANGED <<users, login_limiter, started, login_failures, issued>>
    /\ UNCHANGED <<queueVars, ingestVars, fieldVars, limiterVars, apiVars>>

\* refresh: the user is loaded (a missing user is answered 401), the tokens
\* are generated, the new refresh token is stored and the response carries both
refresh_issue(c) ==
    /\ calls[c].op = "refresh" /\ calls[c].pc = "issue"
    /\ IF calls[c].user \in DOMAIN users
       THEN /\ create_refresh_token(calls[c].user, "refresh", calls[c].token)
            /\ SetCall(c, [pc |-> "done", granted |-> NextToken,
                            response |-> Granted(NextToken)])
       ELSE /\ SetCall(c, [pc |-> "done",
                            response |-> AppError("Unauthorized", "User not found")])
            /\ UNCHANGED <<refresh_tokens, issued>>
    /\ UNCHANGED <<users, login_limiter, started, login_failures>>
    /\ UNCHANGED <<queueVars, ingestVars, fieldVars, limiterVars, apiVars>>

\* logout: with a refresh_token cookie delete_by_hash; always 200
logout(c) ==
    /\ TokenReady(c)
    /\ \E cookie \in Cookies :
        /\ refresh_tokens' = IF cookie = NoCookie THEN refresh_tokens
                             ELSE delete_by_hash(hash_token(cookie))
        /\ issued' = IF cookie = NoCookie THEN issued
                     ELSE [issued EXCEPT ![cookie].logged_out = TRUE]
        /\ calls' = [calls EXCEPT ![c] =
              [NoCall EXCEPT !.op = "logout", !.token = cookie,
                             !.response = Response(200, "Logged out successfully")]]
    /\ started' = started + 1
    /\ UNCHANGED <<users, login_limiter, login_failures>>
    /\ UNCHANGED <<queueVars, ingestVars, fieldVars, limiterVars, apiVars>>

\* time passes up to the last second of validity of a stored token, or to the
\* first second after it
refresh_elapse ==
    /\ \E t \in UNION {{row.expires_at, row.expires_at + 1} : row \in refresh_tokens} :
          t > now /\ now' = t
    /\ UNCHANGED <<action_queue, action_log, worker_pc, worker_lock, worker_item, worker_status>>
    /\ UNCHANGED <<ingestVars, fieldVars, otherVars>>

\* a user who has logged in: the refresh token of the login is stored
RefreshInit ==
    /\ checks = <<>>
    /\ users = <<AdminUser>>
    /\ refresh_tokens = {[id |-> 1, user_id |-> 1, token_hash |-> hash_token(1),
                           used |-> FALSE, expires_at |-> RefreshTtlSecs]}
    /\ login_limiter = <<>>
    /\ calls = [c \in Clients |-> NoCall]
    /\ started = 0
    /\ login_failures = <<>>
    /\ issued = <<NewIssued(1, "login", NoCookie)>>
    /\ ApiRegistered

InitRefresh == QueueIdle /\ IngestIdle /\ FieldsIdle /\ RefreshInit

NextRefresh ==
    \/ \E c \in Clients : refresh_find(c)
    \/ \E c \in Clients : refresh_revoke(c)
    \/ \E c \in Clients : refresh_mark(c)
    \/ \E c \in Clients : refresh_issue(c)
    \/ \E c \in Clients : logout(c)
    \/ refresh_elapse

SpecRefresh == InitRefresh /\ [][NextRefresh]_vars

(* ------------------ properties of refresh and logout ------------------- *)
\* the tokens generated by refresh requests that presented token t
ExchangedFor(t) == {n \in DOMAIN issued : issued[n].op = "refresh" /\ issued[n].from = t}

\* C14: a refresh token is exchanged successfully at most once: at most one
\* request presenting a given token receives new tokens, and the new refresh
\* token differs from the presented one and is stored unused.
C14_ExchangedAtMostOnce ==
    /\ \A t \in DOMAIN issued : Cardinality(ExchangedFor(t)) <= 1
    /\ \A c \in Clients : (calls[c].op = "refresh" /\ calls[c].granted # 0) =>
          calls[c].granted # calls[c].token

\* this step is the answer of client c to the replay of a used token
ReplayAnswered(c) ==
    calls[c].op = "refresh" /\ calls[c].pc = "revoke" /\ calls'[c].pc = "done"

\* C15: presenting an already-used refresh token is answered 401 and revokes
\* all sessions of the user: the answer leaves no stored token of the user,
\* and a refresh request that starts after the replay and presents a token
\* issued to the user before it is answered 401.
C15_ReplayRevokesAll ==
    /\ [][\A c \in Clients : ReplayAnswered(c) =>
            /\ calls'[c].response.status = 401
            /\ \A row \in refresh_tokens' : row.user_id # calls[c].user]_vars
    /\ [](\A c \in Clients :
            (calls[c].op = "refresh" /\ calls[c].after_replay) =>
                /\ calls[c].pc = "done"
                /\ calls[c].response.status = 401
                /\ calls[c].granted = 0)

\* the token of the first legitimate refresh is presented after the replay of
\* the token it was exchanged for, and is answered 401
C15_Witness ==
    \E c \in Clients :
        /\ calls[c].op = "refresh" /\ calls[c].after_replay
        /\ calls[c].token # NoCookie
        /\ issued[calls[c].token].op = "refresh"
        /\ calls[c].response.status = 401

\* C16: a refresh request that starts after a logout request presented the
\* same refresh token is answered 401.
C16_LogoutInvalidates ==
    \A c \in Clients :
        (calls[c].op = "refresh" /\ calls[c].after_logout) =>
            /\ calls[c].pc = "done"
            /\ calls[c].response.status = 401
            /\ calls[c].granted = 0

\* a client has logged out with a stored, unused token and the other client's
\* refresh with that token was answered 401
C16_Witness ==
    \E c, other \in Clients :
        /\ c # other
        /\ calls[c].op = "logout" /\ calls[c].token # NoCookie
        /\ calls[other].op = "refresh" /\ calls[other].token = calls[c].token
        /\ calls[other].after_logout /\ ~calls[other].after_replay
        /\ calls[other].response.status = 401

(* ------------------------------ register ------------------------------ *)
\* slugify on the names of the model
slugify(name) == IF name = "Admin" THEN "admin" ELSE IF name = "Other" THEN "other" ELSE ""

\* the bodies clients register with: two complete ones, one with each field
\* empty, and one with a password shorter than 8 characters
RegisterInputs ==
    {[name |-> "Admin", email |-> "admin@test.com", password |-> "secret123"],
     [name |-> "Other", email |-> "other@test.com", password |-> "secret123"],
     [name |-> "",      email |-> "admin@test.com", password |-> "secret123"],
     [name |-> "Admin", email |-> "",               password |-> "secret123"],
     [name |-> "Admin", email |-> "admin@test.com", password |-> ""],
     [name |-> "Admin", email |-> "admin@test.com", password |-> "short"]}

\* str::len on the passwords of the model
PasswordLen(password) ==
    CASE password = ""          -> 0
      [] password = "short"     -> 5
      [] password = "wrong"     -> 5
      [] password = "secret123" -> 9
      [] password = "changed456" -> 10

\* register: the two checks of the body; "ok" or the 400 response
register_validation(req) ==
    IF req.email = "" \/ req.password = "" \/ req.name = ""
    THEN AppError("BadRequest", "All fields are required")
    ELSE IF PasswordLen(req.password) < 8
    THEN AppError("BadRequest", "Password must be at least 8 characters")
    ELSE Response(0, "ok")

lock_granted_Unlocked(c) == TRUE

\* SELECT pg_advisory_xact_lock(1) returns once no other transaction holds
\* the lock
lock_granted(c) == advisory_lock = NoHolder

\* db::users::count_all inside the transaction: the committed rows
count_all == Len(users)

\* register: the body is validated and the password hashed; a rejected body
\* is answered 400, otherwise the transaction begins
register_validate(c) ==
    /\ Ready(c)
    /\ \E req \in RegisterInputs :
        LET checked == register_validation(req)
            call == [NoCall EXCEPT !.op = "register", !.name = req.name,
                        !.email = req.email, !.password = req.password,
                        !.raced = \E o \in Clients \ {c} :
                                     calls[o].op = "register" /\ calls[o].pc # "done"]
        IN calls' = [calls EXCEPT ![c] =
              IF checked.status = 400
              THEN [call EXCEPT !.response = checked]
              ELSE [call EXCEPT !.pc = "lock"]]
    /\ started' = started + 1
    /\ UNCHANGED <<users, refresh_tokens, login_limiter, login_failures, issued>>
    /\ UNCHANGED <<queueVars, ingestVars, fieldVars, limiterVars, apiVars>>

\* register: pool.begin() and pg_advisory_xact_lock(1)
register_lock(c) ==
    /\ calls[c].op = "register" /\ calls[c].pc = "lock"
    /\ lock_granted(c)
    /\ advisory_lock' = c
    /\ SetCall(c, [pc |-> "count"])
    /\ UNCHANGED <<users, refresh_tokens, login_limiter, started, login_failures, issued, tenants>>
    /\ UNCHANGED <<queueVars, ingestVars, fieldVars, limiterVars, restVars>>

\* register: count_all; with a user the request is answered 403 and the
\* dropped transaction rolls back, which releases the lock
register_count(c) ==
    /\ calls[c].op = "register" /\ calls[c].pc = "count"
    /\ IF count_all > 0
       THEN /\ SetCall(c, [pc |-> "done",
                            response |-> AppError("Forbidden",
                               "Registration is disabled. Contact your system administrator.")])
            /\ advisory_lock' = IF advisory_lock = c THEN NoHolder ELSE advisory_lock
       ELSE /\ SetCall(c, [pc |-> "commit"])
            /\ UNCHANGED advisory_lock
    /\ UNCHANGED <<users, refresh_tokens, login_limiter, started, login_failures, issued, tenants>>
    /\ UNCHANGED <<queueVars, ingestVars, fieldVars, limiterVars, restVars>>

\* register: tenants::create, users::create and tx.commit(): the rows become
\* visible and the lock is released
register_commit(c) ==
    /\ calls[c].op = "register" /\ calls[c].pc = "commit"
    /\ tenants' = Append(tenants, [name |-> calls[c].name \o "'s Workspace",
                                   slug |-> slugify(calls[c].name)])
    /\ users' = Append(users, [tenant_id |-> Len(tenants) + 1, email |-> calls[c].email,
                               password_hash |-> PasswordHash(calls[c].password)])
    /\ advisory_lock' = IF advisory_lock = c THEN NoHolder ELSE advisory_lock
    /\ SetCall(c, [pc |-> "issue", user |-> Len(users) + 1])
    /\ UNCHANGED <<refresh_tokens, login_limiter, started, login_failures, issued>>
    /\ UNCHANGED <<queueVars, ingestVars, fieldVars, limiterVars, restVars>>

\* register: the tokens are generated, the refresh token is stored and the
\* response carries both
register_issue(c) ==
    /\ calls[c].op = "register" /\ calls[c].pc = "issue"
    /\ create_refresh_token(calls[c].user, "register", NoCookie)
    /\ SetCall(c, [pc |-> "done", granted |-> NextToken, response |-> Granted(NextToken)])
    /\ UNCHANGED <<users, login_limiter, started, login_failures>>
    /\ UNCHANGED <<queueVars, ingestVars, fieldVars, limiterVars, apiVars>>

\* the database is empty (build_app on a fresh database), or main has created
\* the default tenant and its admin
RegisterInit ==
    /\ checks = <<>>
    /\ \/ users = <<>> /\ tenants = <<>>
       \/ users = <<DefaultAdmin>> /\ tenants = <<DefaultTenant>>
    /\ advisory_lock = NoHolder
    /\ RestIdle
    /\ refresh_tokens = {}
    /\ login_limiter = <<>>
    /\ calls = [c \in Clients |-> NoCall]
    /\ started = 0
    /\ login_failures = <<>>
    /\ issued = <<>>

InitRegister == QueueIdle /\ IngestIdle /\ FieldsIdle /\ RegisterInit

NextRegister ==
    \/ \E c \in Clients : register_validate(c)
    \/ \E c \in Clients : register_lock(c)
    \/ \E c \in Clients : register_count(c)
    \/ \E c \in Clients : register_commit(c)
    \/ \E c \in Clients : register_issue(c)

SpecRegister == InitRegister /\ [][NextRegister]_vars

(* ------------------------ properties of register ----------------------- *)
\* this step answers the register request of client c, whose body is valid
ValidRegisterAnswered(c) ==
    /\ calls[c].op = "register" /\ calls[c].pc # "done" /\ calls'[c].pc = "done"
    /\ register_validation(calls[c]).status # 400

\* C17: registration succeeds only while no user exists: register requests
\* create at most one tenant and one user, and only when there is no user;
\* every valid register request that did not create them is answered 403.
C17_OnlyFirstRegisters ==
    /\ [](Len(users) <= 1 /\ Len(tenants) <= 1)
    /\ [][(users' # users \/ tenants' # tenants) =>
            (users = <<>> /\ Len(users') = 1 /\ Len(tenants') = 1)]_vars
    /\ [][\A c \in Clients : ValidRegisterAnswered(c) =>
            IF calls[c].pc = "issue" THEN calls'[c].response.status = 200
            ELSE calls'[c].response.status = 403]_vars

\* two valid register requests ran concurrently on an empty database: one
\* received tokens and the other 403
C17_Witness ==
    \E c, o \in Clients :
        /\ c # o
        /\ calls[c].op = "register" /\ calls[c].response.status = 200
        /\ calls[o].op = "register" /\ calls[o].response.status = 403
        /\ calls[o].raced

(* -------------------------- dashboard API ------------------------------ *)
\* most dashboard requests in the model
MaxApiRequests == 3

\* the tenants of the model; a request carries the tenant id of its token
\* (AuthUser::tenant_id)
TenantIds == {1, 2}

\* the rows before the first request: each tenant has a project with an
\* endpoint, and the endpoint has a submission and an action
DashTables ==
    [projects    |-> (1 :> [tenant_id |-> 1, name |-> "old"])
                  @@ (2 :> [tenant_id |-> 2, name |-> "old"]),
     endpoints   |-> (3 :> [project_id |-> 1, name |-> "old"])
                  @@ (4 :> [project_id |-> 2, name |-> "old"]),
     submissions |-> (5 :> [endpoint_id |-> 3]) @@ (6 :> [endpoint_id |-> 4]),
     actions     |-> (7 :> [endpoint_id |-> 3, name |-> "old"])
                  @@ (8 :> [endpoint_id |-> 4, name |-> "old"])]

DashInserted ==
    <<"projects", "projects", "endpoints", "endpoints",
      "submissions", "submissions", "actions", "actions">>

\* the ids a path may carry for a table: the uuids of its rows, deleted or not
PathIds(table) == {id \in DOMAIN inserted : inserted[id] = table}

\* uuid generation
NewId == Len(inserted) + 1

\* the slugs of request bodies: "" fails validate_slug
Slugs == {"new", ""}

\* validate_slug
validate_slug(slug) == slug # ""

\* WHERE tenant_id = $2 on projects
TenantProjects(tenant_id) ==
    {p \in DOMAIN tables.projects : tables.projects[p].tenant_id = tenant_id}

\* SELECT e.id FROM endpoints e JOIN projects p ON e.project_id = p.id
\* WHERE p.tenant_id = $2
TenantEndpoints(tenant_id) ==
    {e \in DOMAIN tables.endpoints : tables.endpoints[e].project_id \in TenantProjects(tenant_id)}

\* db::projects::list
projects_list(tenant_id) == TenantProjects(tenant_id)

\* db::projects::find_by_id, and the WHERE clause of update and delete
projects_find_by_id(id, tenant_id) == {id} \cap TenantProjects(tenant_id)

endpoints_find_by_id_scoped_AnyTenant(id, tenant_id) == {id} \cap DOMAIN tables.endpoints

\* db::endpoints::find_by_id_scoped
endpoints_find_by_id_scoped(id, tenant_id) == {id} \cap TenantEndpoints(tenant_id)

\* db::endpoints::update and delete: WHERE id = $1 AND project_id IN (..)
endpoints_where(id, tenant_id) ==
    {e \in {id} \cap DOMAIN tables.endpoints :
        tables.endpoints[e].project_id \in TenantProjects(tenant_id)}

\* db::endpoints::list_by_project
endpoints_list_by_project(project_id) ==
    {e \in DOMAIN tables.endpoints : tables.endpoints[e].project_id = project_id}

\* db::submissions::find_by_id_scoped, and the WHERE clause of delete
submissions_find_by_id_scoped(id, tenant_id) ==
    {sub \in {id} \cap DOMAIN tables.submissions :
        tables.submissions[sub].endpoint_id \in TenantEndpoints(tenant_id)}

\* db::submissions::list: WHERE endpoint_id = $1
submissions_list(endpoint_id) ==
    {sub \in DOMAIN tables.submissions : tables.submissions[sub].endpoint_id = endpoint_id}

\* db::submissions::list_for_export, and the WHERE clause of bulk_delete
submissions_list_for_export(endpoint_id, tenant_id) ==
    {sub \in submissions_list(endpoint_id) : endpoint_id \in TenantEndpoints(tenant_id)}

\* db::actions::find_by_id_scoped, and the WHERE clause of update and delete
actions_find_by_id_scoped(id, tenant_id) ==
    {a \in {id} \cap DOMAIN tables.actions :
        tables.actions[a].endpoint_id \in TenantEndpoints(tenant_id)}

\* db::actions::list_by_endpoint
actions_list_by_endpoint(endpoint_id) ==
    {a \in DOMAIN tables.actions : tables.actions[a].endpoint_id = endpoint_id}

\* the rows of a table as they appear in a response
Rows(table, ids) == {<<table, id>> : id \in ids}

\* table without the rows ids
Without(table, ids) == [id \in DOMAIN table \ ids |-> table[id]]

\* the tables after DELETE of endpoints ids, with the rows that reference them
DeleteEndpoints(T, ids) ==
    [T EXCEPT !.endpoints = Without(@, ids),
              !.submissions = Without(@, {sub \in DOMAIN @ : @[sub].endpoint_id \in ids}),
              !.actions = Without(@, {a \in DOMAIN @ : @[a].endpoint_id \in ids})]

\* the tables after DELETE of projects ids, with the rows that reference them
DeleteProjects(T, ids) ==
    [DeleteEndpoints(T, {e \in DOMAIN T.endpoints : T.endpoints[e].project_id \in ids})
        EXCEPT !.projects = Without(@, ids)]

\* the foreign keys of the schema: a DELETE takes the referencing rows with
\* it, or fails while there are any
OnDelete == {"cascade", "restrict"}

\* the response of a handler
Answer(tenant_id, op, id, status, rows) ==
    reply' = [tenant |-> tenant_id, op |-> op, id |-> id, status |-> status, rows |-> rows]

\* a request arrives and its handler starts
Arrives == started < MaxApiRequests /\ started' = started + 1

\* routes::projects::list
projects_list_handler ==
    /\ Arrives
    /\ \E t \in TenantIds : Answer(t, "projects::list", 0, 200, Rows("projects", projects_list(t)))
    /\ UNCHANGED <<tables, inserted, pending>>

\* routes::projects::create
projects_create ==
    /\ Arrives
    /\ \E t \in TenantIds, slug \in Slugs :
        IF ~validate_slug(slug)
        THEN /\ Answer(t, "projects::create", 0, 400, {})
             /\ UNCHANGED <<tables, inserted>>
        ELSE /\ tables' = [tables EXCEPT !.projects =
                              (NewId :> [tenant_id |-> t, name |-> slug]) @@ @]
             /\ inserted' = Append(inserted, "projects")
             /\ Answer(t, "projects::create", 0, 200, Rows("projects", {NewId}))
    /\ UNCHANGED pending

\* routes::projects::get
projects_get ==
    /\ Arrives
    /\ \E t \in TenantIds, id \in PathIds("projects") :
        LET found == projects_find_by_id(id, t)
        IN Answer(t, "projects::get", id, IF found = {} THEN 404 ELSE 200, Rows("projects", found))
    /\ UNCHANGED <<tables, inserted, pending>>

\* routes::projects::update
projects_update ==
    /\ Arrives
    /\ \E t \in TenantIds, id \in PathIds("projects"), slug \in Slugs :
        LET found == projects_find_by_id(id, t)
        IN IF ~validate_slug(slug)
           THEN Answer(t, "projects::update", id, 400, {}) /\ UNCHANGED tables
           ELSE IF found = {}
           THEN Answer(t, "projects::update", id, 404, {}) /\ UNCHANGED tables
           ELSE /\ tables' = [tables EXCEPT !.projects[id].name = slug]
                /\ Answer(t, "projects::update", id, 200, Rows("projects", found))
    /\ UNCHANGED <<inserted, pending>>

\* routes::projects::delete
projects_delete ==
    /\ Arrives
    /\ \E t \in TenantIds, id \in PathIds("projects"), on_delete \in OnDelete :
        LET found == projects_find_by_id(id, t)
        IN IF on_delete = "restrict" /\ \E p \in found : endpoints_list_by_project(p) # {}
           THEN Answer(t, "projects::delete", id, 500, {}) /\ UNCHANGED tables
           ELSE /\ tables' = DeleteProjects(tables, found)
                /\ Answer(t, "projects::delete", id, 200, {})
    /\ UNCHANGED <<inserted, pending>>

\* routes::endpoints::get
endpoints_get ==
    /\ Arrives
    /\ \E t \in TenantIds, id \in PathIds("endpoints") :
        LET found == endpoints_find_by_id_scoped(id, t)
        IN Answer(t, "endpoints::get", id, IF found = {} THEN 404 ELSE 200, Rows("endpoints", found))
    /\ UNCHANGED <<tables, inserted, pending>>

\* routes::endpoints::update
endpoints_update ==
    /\ Arrives
    /\ \E t \in TenantIds, id \in PathIds("endpoints"), slug \in Slugs :
        LET found == endpoints_where(id, t)
        IN IF ~validate_slug(slug)
           THEN Answer(t, "endpoints::update", id, 400, {}) /\ UNCHANGED tables
           ELSE IF found = {}
           THEN Answer(t, "endpoints::update", id, 404, {}) /\ UNCHANGED tables
           ELSE /\ tables' = [tables EXCEPT !.endpoints[id].name = slug]
                /\ Answer(t, "endpoints::update", id, 200, Rows("endpoints", found))
    /\ UNCHANGED <<inserted, pending>>

\* routes::endpoints::delete
endpoints_delete ==
    /\ Arrives
    /\ \E t \in TenantIds, id \in PathIds("endpoints"), on_delete \in OnDelete :
        LET found == endpoints_where(id, t)
        IN IF on_delete = "restrict" /\ \E e \in found :
                  submissions_list(e) # {} \/ actions_list_by_endpoint(e) # {}
           THEN Answer(t, "endpoints::delete", id, 500, {}) /\ UNCHANGED tables
           ELSE /\ tables' = DeleteEndpoints(tables, found)
                /\ Answer(t, "endpoints::delete", id, 200, {})
    /\ UNCHANGED <<inserted, pending>>

\* routes::submissions::get
submissions_get ==
    /\ Arrives
    /\ \E t \in TenantIds, id \in PathIds("submissions") :
        LET found == submissions_find_by_id_scoped(id, t)
        IN Answer(t, "submissions::get", id, IF found = {} THEN 404 ELSE 200,
                  Rows("submissions", found))
    /\ UNCHANGED <<tables, inserted, pending>>

\* routes::submissions::delete
submissions_delete ==
    /\ Arrives
    /\ \E t \in TenantIds, id \in PathIds("submissions") :
        /\ tables' = [tables EXCEPT !.submissions =
                          Without(@, submissions_find_by_id_scoped(id, t))]
        /\ Answer(t, "submissions::delete", id, 200, {})
    /\ UNCHANGED <<inserted, pending>>

\* routes::actions::update; the body's name stands for its type and config
actions_update ==
    /\ Arrives
    /\ \E t \in TenantIds, id \in PathIds("actions") :
        LET found == actions_find_by_id_scoped(id, t)
        IN IF found = {}
           THEN Answer(t, "actions::update", id, 404, {}) /\ UNCHANGED tables
           ELSE /\ tables' = [tables EXCEPT !.actions[id].name = "new"]
                /\ Answer(t, "actions::update", id, 200, Rows("actions", found))
    /\ UNCHANGED <<inserted, pending>>

\* routes::actions::delete
actions_delete ==
    /\ Arrives
    /\ \E t \in TenantIds, id \in PathIds("actions") :
        /\ tables' = [tables EXCEPT !.actions = Without(@, actions_find_by_id_scoped(id, t))]
        /\ Answer(t, "actions::delete", id, 200, {})
    /\ UNCHANGED <<inserted, pending>>

\* the handlers that first verify that the object of the path belongs to the
\* caller's tenant and then run a second statement, by the table of the object
ProjectChecked == {"endpoints::list_by_project", "endpoints::create"}
EndpointChecked ==
    {"submissions::list", "submissions::bulk_delete", "submissions::export",
     "actions::list_by_endpoint", "actions::create"}
ActionChecked == {"actions::log"}

\* the first statement of those handlers: None is answered 404
verified(op, id, tenant_id) ==
    IF op \in ProjectChecked THEN projects_find_by_id(id, tenant_id)
    ELSE IF op \in EndpointChecked THEN endpoints_find_by_id_scoped(id, tenant_id)
    ELSE actions_find_by_id_scoped(id, tenant_id)

CheckedPath(op) ==
    IF op \in ProjectChecked THEN PathIds("projects")
    ELSE IF op \in EndpointChecked THEN PathIds("endpoints")
    ELSE PathIds("actions")

\* "Verify project/endpoint/action belongs to tenant"
verify_owner ==
    /\ Arrives
    /\ pending = NoRequest
    /\ \E t \in TenantIds, op \in ProjectChecked \cup EndpointChecked \cup ActionChecked :
        \E id \in CheckedPath(op) :
            IF verified(op, id, t) = {}
            THEN Answer(t, op, id, 404, {}) /\ UNCHANGED pending
            ELSE /\ pending' = [NoRequest EXCEPT !.tenant = t, !.op = op, !.id = id]
                 /\ UNCHANGED reply
    /\ UNCHANGED <<tables, inserted>>

\* the second statement returns rows
Listed(op, table, ids) ==
    /\ pending.op = op
    /\ Answer(pending.tenant, op, pending.id, 200, Rows(table, ids))
    /\ pending' = NoRequest
    /\ UNCHANGED <<tables, inserted, started>>

\* routes::endpoints::list_by_project
endpoints_list_by_project_handler ==
    Listed("endpoints::list_by_project", "endpoints", endpoints_list_by_project(pending.id))

\* routes::submissions::list
submissions_list_handler ==
    Listed("submissions::list", "submissions", submissions_list(pending.id))

\* routes::submissions::export
submissions_export ==
    Listed("submissions::export", "submissions",
           submissions_list_for_export(pending.id, pending.tenant))

\* routes::actions::list_by_endpoint
actions_list_by_endpoint_handler ==
    Listed("actions::list_by_endpoint", "actions", actions_list_by_endpoint(pending.id))

\* routes::actions::log: the rows of action_log are not modelled
actions_log ==
    Listed("actions::log", "action_log", {})

\* routes::submissions::bulk_delete
submissions_bulk_delete ==
    /\ pending.op = "submissions::bulk_delete"
    /\ tables' = [tables EXCEPT !.submissions =
                      Without(@, submissions_list_for_export(pending.id, pending.tenant))]
    /\ Answer(pending.tenant, pending.op, pending.id, 200, {})
    /\ pending' = NoRequest
    /\ UNCHANGED <<inserted, started>>

\* the second statement inserts a row that references the verified one; the
\* insert of a row whose parent has been deleted fails (500)
Created(op, table, parents, row) ==
    /\ pending.op = op
    /\ IF pending.id \in parents
       THEN /\ tables' = [tables EXCEPT ![table] = (NewId :> row) @@ @]
            /\ inserted' = Append(inserted, table)
            /\ Answer(pending.tenant, op, pending.id, 200, Rows(table, {NewId}))
       ELSE /\ Answer(pending.tenant, op, pending.id, 500, {})
            /\ UNCHANGED <<tables, inserted>>
    /\ pending' = NoRequest
    /\ UNCHANGED started

\* routes::endpoints::create
endpoints_create ==
    Created("endpoints::create", "endpoints", DOMAIN tables.projects,
            [project_id |-> pending.id, name |-> "new"])

\* routes::actions::create: an action type without a module is answered 400
actions_create ==
    \E action_type \in {"webhook", "sms"} :
        IF action_type \in Registry
        THEN Created("actions::create", "actions", DOMAIN tables.endpoints,
                     [endpoint_id |-> pending.id, name |-> "new"])
        ELSE /\ pending.op = "actions::create"
             /\ Answer(pending.tenant, pending.op, pending.id, 400, {})
             /\ pending' = NoRequest
             /\ UNCHANGED <<tables, inserted, started>>

DashInit ==
    /\ tables = DashTables
    /\ inserted = DashInserted
    /\ pending = NoRequest
    /\ reply = NoRequest

DashUnchanged ==
    /\ UNCHANGED <<users, refresh_tokens, login_limiter, calls, login_failures, issued>>
    /\ UNCHANGED <<queueVars, ingestVars, fieldVars, limiterVars, regVars, mailVars, ssrfVars, moreVars>>

InitDash ==
    /\ QueueIdle /\ IngestIdle /\ FieldsIdle
    /\ checks = <<>> /\ AuthIdle
    /\ tenants = <<AdminTenant, DefaultTenant>> /\ advisory_lock = NoHolder
    /\ DashInit /\ MailIdle /\ SsrfIdle /\ MoreIdle

NextDash ==
    \/ projects_list_handler /\ DashUnchanged
    \/ projects_create /\ DashUnchanged
    \/ projects_get /\ DashUnchanged
    \/ projects_update /\ DashUnchanged
    \/ projects_delete /\ DashUnchanged
    \/ endpoints_get /\ DashUnchanged
    \/ endpoints_update /\ DashUnchanged
    \/ endpoints_delete /\ DashUnchanged
    \/ submissions_get /\ DashUnchanged
    \/ submissions_delete /\ DashUnchanged
    \/ actions_update /\ DashUnchanged
    \/ actions_delete /\ DashUnchanged
    \/ verify_owner /\ DashUnchanged
    \/ endpoints_list_by_project_handler /\ DashUnchanged
    \/ endpoints_create /\ DashUnchanged
    \/ submissions_list_handler /\ DashUnchanged
    \/ submissions_export /\ DashUnchanged
    \/ submissions_bulk_delete /\ DashUnchanged
    \/ actions_list_by_endpoint_handler /\ DashUnchanged
    \/ actions_create /\ DashUnchanged
    \/ actions_log /\ DashUnchanged

SpecDash == InitDash /\ [][NextDash]_vars

(* --------------------- properties of the dashboard API ----------------- *)
\* the tenant a row of tables T belongs to (0: the row or its parent is gone)
OwnerOf(T, table, id) ==
    IF id \notin DOMAIN T[table] THEN 0
    ELSE IF table = "projects" THEN T.projects[id].tenant_id
    ELSE IF table = "endpoints"
    THEN (IF T.endpoints[id].project_id \in DOMAIN T.projects
          THEN T.projects[T.endpoints[id].project_id].tenant_id ELSE 0)
    ELSE LET e == T[table][id].endpoint_id
         IN IF e \in DOMAIN T.endpoints /\ T.endpoints[e].project_id \in DOMAIN T.projects
            THEN T.projects[T.endpoints[e].project_id].tenant_id ELSE 0

TableNames == {"projects", "endpoints", "submissions", "actions"}

\* the get requests and the table of the object their path names
GetTable ==
    [op \in {"projects::get", "endpoints::get", "submissions::get"} |->
        CASE op = "projects::get"    -> "projects"
          [] op = "endpoints::get"   -> "endpoints"
          [] op = "submissions::get" -> "submissions"]

\* this step answers a request
RequestAnswered ==
    \/ started' = started + 1 /\ pending' = pending
    \/ pending # NoRequest /\ pending' = NoRequest

\* C18: a request authenticated for one tenant never reads, modifies or
\* deletes a project, endpoint, submission or action of another tenant: a get
\* of such an object is answered 404, every row of a response belongs to the
\* caller's tenant, and the rows of the other tenants are the same after the
\* request as before it.
C18_TenantIsolation ==
    [][RequestAnswered =>
        /\ (reply'.op \in DOMAIN GetTable
              /\ OwnerOf(tables, GetTable[reply'.op], reply'.id) # reply'.tenant)
           => reply'.status = 404 /\ reply'.rows = {}
        /\ \A row \in reply'.rows :
              row[1] \in TableNames => OwnerOf(tables', row[1], row[2]) = reply'.tenant
        /\ \A table \in TableNames : \A id \in DOMAIN tables[table] :
              OwnerOf(tables, table, id) # reply'.tenant =>
                  /\ id \in DOMAIN tables'[table]
                  /\ tables'[table][id] = tables[table][id]]_vars

\* a tenant has asked for the submissions of an endpoint of another tenant,
\* which has one, and was answered 404 without rows
C18_Witness ==
    /\ reply.op = "submissions::list" /\ reply.status = 404 /\ reply.rows = {}
    /\ OwnerOf(tables, "endpoints", reply.id) \notin {0, reply.tenant}
    /\ submissions_list(reply.id) # {}

(* --------------------------- forgot password --------------------------- *)
\* let expires_at = Utc::now() + Duration::hours(1), in seconds
ResetTtlSecs == 3600

\* the emails of forgot-password requests: the user's, the user's in another
\* case, and one of nobody
ForgotEmails == {"admin@test.com", "Admin@Test.com", "nobody@test.com"}

forgot_password_response_Revealing(email) ==
    IF find_by_email(email) = {} THEN AppError("NotFound", "No such user")
    ELSE Response(200, "If that email is registered, a reset link has been sent.")

\* forgot_password: the response, built before the task is spawned
forgot_password_response(email) ==
    Response(200, "If that email is registered, a reset link has been sent.")

\* forgot_password: the response is built, the task is spawned, the response
\* is returned
forgot_password(c) ==
    /\ Ready(c)
    /\ \E email \in ForgotEmails :
        /\ calls' = [calls EXCEPT ![c] =
              [NoCall EXCEPT !.op = "forgot_password", !.email = email,
                             !.response = forgot_password_response(email)]]
        /\ tasks' = tasks (+) SetToBag({email})
    /\ started' = started + 1
    /\ UNCHANGED <<users, refresh_tokens, login_limiter, login_failures, issued>>
    /\ UNCHANGED <<system_mailer, password_reset_tokens, outbox>>
    /\ UNCHANGED <<queueVars, ingestVars, fieldVars, limiterVars, regVars, dashVars, ssrfVars, moreVars>>

\* the spawned task: find_by_email; for a user a token is generated and
\* stored, and with a mailer the reset link is sent to the user's address
forgot_password_task ==
    /\ \E email \in BagToSet(tasks) :
        /\ tasks' = tasks (-) SetToBag({email})
        /\ IF find_by_email(email) = {}
           THEN UNCHANGED <<password_reset_tokens, outbox, issued>>
           ELSE LET user_id == CHOOSE id \in find_by_email(email) : TRUE
                IN /\ password_reset_tokens' = password_reset_tokens \cup
                          {[user_id |-> user_id, token_hash |-> hash_token(NextToken),
                            expires_at |-> now + ResetTtlSecs, used |-> FALSE]}
                   /\ issued' = Append(issued, NewIssued(user_id, "forgot_password", NoCookie))
                   /\ outbox' = IF system_mailer
                                THEN outbox \cup {[to |-> users[user_id].email, token |-> NextToken]}
                                ELSE outbox
    /\ UNCHANGED <<users, refresh_tokens, login_limiter, calls, started, login_failures>>
    /\ UNCHANGED system_mailer
    /\ UNCHANGED <<queueVars, ingestVars, fieldVars, limiterVars, regVars, dashVars, ssrfVars, moreVars>>

\* one registered user; the system SMTP is configured or not
ForgotInit ==
    /\ checks = <<>>
    /\ users = <<AdminUser>>
    /\ refresh_tokens = {}
    /\ login_limiter = <<>>
    /\ calls = [c \in Clients |-> NoCall]
    /\ started = 0
    /\ login_failures = <<>>
    /\ issued = <<>>
    /\ tenants = <<AdminTenant>> /\ advisory_lock = NoHolder
    /\ DashIdle /\ SsrfIdle /\ MoreIdle
    /\ system_mailer \in BOOLEAN
    /\ password_reset_tokens = {}
    /\ tasks = EmptyBag
    /\ outbox = {}

InitForgot == QueueIdle /\ IngestIdle /\ FieldsIdle /\ ForgotInit

NextForgot ==
    \/ \E c \in Clients : forgot_password(c)
    \/ forgot_password_task

SpecForgot == InitForgot /\ [][NextForgot]_vars

(* ---------------------- properties of forgot password ------------------ *)
\* the forgot-password requests answered so far
ForgotAnswered == {c \in Clients : calls[c].op = "forgot_password" /\ calls[c].pc = "done"}

\* C19: the response of forgot-password (status 200 and message) is the same
\* whether or not the submitted email belongs to a registered user.
C19_SameResponse ==
    /\ \A c \in ForgotAnswered : calls[c].response.status = 200
    /\ \A c, o \in ForgotAnswered : calls[c].response = calls[o].response

\* one request named the user's email and one an email of nobody; the task of
\* the first has stored a reset token
C19_Witness ==
    \E c, o \in ForgotAnswered :
        /\ find_by_email(calls[c].email) # {}
        /\ find_by_email(calls[o].email) = {}
        /\ password_reset_tokens # {}

(* ------------------------ webhook::validate_url ------------------------ *)
\* IpAddr::V4 by its octets, IpAddr::V6 by its segments
V4(a, b, c, d) == [v |-> 4, parts |-> <<a, b, c, d>>]
V6(segments) == [v |-> 6, parts |-> segments]

\* x & mask, for a mask that clears the lowest `low` bits of x
ClearLow(x, low) == x - (x % (2 ^ low))

\* Ipv6Addr::to_ipv4_mapped: the v4 address of ::ffff:a.b.c.d, or "none"
to_ipv4_mapped(ip) ==
    IF /\ \A i \in 1..5 : ip.parts[i] = 0
       /\ ip.parts[6] = 65535
    THEN V4(ip.parts[7] \div 256, ip.parts[7] % 256, ip.parts[8] \div 256, ip.parts[8] % 256)
    ELSE [v |-> 0, parts |-> <<>>]

is_private_ip_NoCgnat(ip) ==
    LET o == ip.parts
    IN ip.v = 4 /\ (o[1] = 127 \/ o[1] = 10 \/ (o[1] = 172 /\ o[2] \in 16..31)
                    \/ (o[1] = 192 /\ o[2] = 168) \/ (o[1] = 169 /\ o[2] = 254))

\* the IpAddr::V4 arm of is_private_ip
is_private_v4(o) ==
    \/ o[1] = 127                                           \* is_loopback
    \/ o[1] = 10                                            \* is_private
    \/ (o[1] = 172 /\ o[2] >= 16 /\ o[2] <= 31)
    \/ (o[1] = 192 /\ o[2] = 168)
    \/ (o[1] = 169 /\ o[2] = 254)                           \* is_link_local
    \/ o = <<255, 255, 255, 255>>                           \* is_broadcast
    \/ o = <<0, 0, 0, 0>>                                   \* is_unspecified
    \/ (o[1] = 100 /\ ClearLow(o[2], 6) = 64)               \* (octets[1] & 0xC0) == 64
    \/ (o[1] = 198 /\ ClearLow(o[2], 1) = 18)               \* (octets[1] & 0xFE) == 18

\* is_private_ip
is_private_ip(ip) ==
    IF ip.v = 4 THEN is_private_v4(ip.parts)
    ELSE \/ ip.parts = <<0, 0, 0, 0, 0, 0, 0, 1>>           \* is_loopback
         \/ ip.parts = <<0, 0, 0, 0, 0, 0, 0, 0>>           \* is_unspecified
         \/ ClearLow(ip.parts[1], 9) = 64512                \* (segments[0] & 0xFE00) == 0xFC00
         \/ ClearLow(ip.parts[1], 6) = 65152                \* (segments[0] & 0xFFC0) == 0xFE80
         \/ (to_ipv4_mapped(ip).v = 4 /\ is_private_v4(to_ipv4_mapped(ip).parts))

\* an IpNet: a network address and a prefix length
IpNet(addr, prefix_len) == [addr |-> addr, prefix_len |-> prefix_len]

\* the bits of part i (of `width` bits) that a prefix of prefix_len bits covers
PrefixBits(i, width, prefix_len) ==
    LET left == prefix_len - width * (i - 1)
    IN IF left <= 0 THEN 0 ELSE IF left >= width THEN width ELSE left

\* IpNet::contains(&IpAddr): same family, and the address has the prefix
cidr_contains(cidr, ip) ==
    /\ cidr.addr.v = ip.v
    /\ LET width == IF ip.v = 4 THEN 8 ELSE 16
       IN \A i \in DOMAIN ip.parts :
            LET low == width - PrefixBits(i, width, cidr.prefix_len)
            IN ClearLow(ip.parts[i], low) = ClearLow(cidr.addr.parts[i], low)

\* the v4 addresses of the model: the first and last addresses of the ranges
\* is_private_ip tests, their neighbours outside, and a public address
V4Addrs ==
    {V4(127, 0, 0, 1), V4(126, 255, 255, 255), V4(128, 0, 0, 1),
     V4(10, 0, 0, 1), V4(11, 0, 0, 1),
     V4(172, 16, 0, 1), V4(172, 31, 255, 255), V4(172, 15, 255, 255), V4(172, 32, 0, 1),
     V4(192, 168, 0, 1), V4(192, 169, 0, 1),
     V4(169, 254, 169, 254), V4(169, 255, 0, 1),
     V4(255, 255, 255, 255), V4(255, 255, 255, 254),
     V4(0, 0, 0, 0), V4(0, 0, 0, 1),
     V4(100, 64, 0, 1), V4(100, 127, 255, 255), V4(100, 63, 255, 255), V4(100, 128, 0, 1),
     V4(198, 18, 0, 1), V4(198, 19, 255, 255), V4(198, 17, 255, 255), V4(198, 20, 0, 1),
     V4(8, 8, 8, 8)}

\* the v6 addresses of the model, chosen the same way; the last three are
\* ::ffff:10.0.0.1, ::ffff:127.0.0.1 and ::ffff:8.8.8.8
V6Addrs ==
    {V6(<<0, 0, 0, 0, 0, 0, 0, 1>>), V6(<<0, 0, 0, 0, 0, 0, 0, 0>>), V6(<<0, 0, 0, 0, 0, 0, 0, 2>>),
     V6(<<64512, 0, 0, 0, 0, 0, 0, 1>>), V6(<<65023, 0, 0, 0, 0, 0, 0, 1>>),
     V6(<<64511, 0, 0, 0, 0, 0, 0, 1>>), V6(<<65024, 0, 0, 0, 0, 0, 0, 1>>),
     V6(<<65152, 0, 0, 0, 0, 0, 0, 1>>), V6(<<65215, 0, 0, 0, 0, 0, 0, 1>>),
     V6(<<65151, 0, 0, 0, 0, 0, 0, 1>>), V6(<<65216, 0, 0, 0, 0, 0, 0, 1>>),
     V6(<<8193, 3512, 0, 0, 0, 0, 0, 1>>),
     V6(<<0, 0, 0, 0, 0, 65535, 2560, 1>>), V6(<<0, 0, 0, 0, 0, 65535, 32512, 1>>),
     V6(<<0, 0, 0, 0, 0, 65535, 2056, 2056>>)}

\* what to_socket_addrs returns for the host name of the model: an error, or
\* the addresses of the name
DnsFailure == [ok |-> FALSE, addrs |-> <<>>]
DnsAnswers ==
    {DnsFailure,
     [ok |-> TRUE, addrs |-> <<V4(8, 8, 8, 8)>>],
     [ok |-> TRUE, addrs |-> <<V4(10, 0, 0, 1)>>],
     [ok |-> TRUE, addrs |-> <<V4(8, 8, 8, 8), V4(10, 0, 0, 1)>>],
     [ok |-> TRUE, addrs |-> <<V4(10, 0, 0, 1), V6(<<64512, 0, 0, 0, 0, 0, 0, 1>>)>>],
     [ok |-> TRUE, addrs |-> <<V4(8, 8, 8, 8), V6(<<8193, 3512, 0, 0, 0, 0, 0, 1>>)>>]}

\* the hosts of the urls: an address literal or a name
Hosts ==
    {[name |-> "", ip |-> ip] : ip \in V4Addrs \cup V6Addrs}
        \cup {[name |-> "example.com", ip |-> [v |-> 0, parts |-> <<>>]]}

\* the urls: one that Url::parse rejects, and every host under three schemes
UrlInputs ==
    {[valid |-> FALSE, scheme |-> "", host |-> CHOOSE h \in Hosts : h.name # ""]}
        \cup {[valid |-> TRUE, scheme |-> scheme, host |-> host] :
                 scheme \in {"http", "https", "ftp"}, host \in Hosts}

\* the allow-lists: none, 10.0.0.0/8, and fc00::/7 with 127.0.0.0/8
CidrInputs ==
    {<<>>,
     <<IpNet(V4(10, 0, 0, 0), 8)>>,
     <<IpNet(V6(<<64512, 0, 0, 0, 0, 0, 0, 0>>), 7), IpNet(V4(127, 0, 0, 0), 8)>>}

Ok == [ok |-> TRUE, error |-> ""]
Err(error) == [ok |-> FALSE, error |-> error]

VuReturn(result) == vu_pc' = "returned" /\ vu_result' = result

\* validate_url with the mode tested before the scheme
validate_url_parse_ModeFirst ==
    /\ vu_pc = "called"
    /\ IF ~vu_url.valid THEN VuReturn(Err("Invalid webhook URL"))
       ELSE IF vu_mode = "Relaxed" THEN VuReturn(Ok)
       ELSE IF vu_url.scheme \notin {"http", "https"}
       THEN VuReturn(Err("Unsupported URL scheme: " \o vu_url.scheme))
       ELSE vu_pc' = "resolve" /\ UNCHANGED vu_result
    /\ UNCHANGED <<vu_url, vu_mode, vu_cidrs, vu_addrs>>

\* validate_url: Url::parse, the scheme, the mode
validate_url_parse ==
    /\ vu_pc = "called"
    /\ IF ~vu_url.valid THEN VuReturn(Err("Invalid webhook URL"))
       ELSE IF vu_url.scheme \notin {"http", "https"}
       THEN VuReturn(Err("Unsupported URL scheme: " \o vu_url.scheme))
       ELSE IF vu_mode = "Relaxed" THEN VuReturn(Ok)
       ELSE vu_pc' = "resolve" /\ UNCHANGED vu_result
    /\ UNCHANGED <<vu_url, vu_mode, vu_cidrs, vu_addrs>>

\* validate_url: a v4 literal parses as IpAddr; host_str gives a v6 literal in
\* brackets, which does not, and to_socket_addrs returns the literal; a name
\* is looked up, and a failed lookup is an error
validate_url_resolve ==
    /\ vu_pc = "resolve"
    /\ \E answer \in (IF vu_url.host.name = ""
                      THEN {[ok |-> TRUE, addrs |-> <<vu_url.host.ip>>]}
                      ELSE DnsAnswers) :
        IF ~answer.ok
        THEN VuReturn(Err("Failed to resolve host")) /\ UNCHANGED vu_addrs
        ELSE IF answer.addrs = <<>>
        THEN VuReturn(Err("Could not resolve host")) /\ UNCHANGED vu_addrs
        ELSE vu_addrs' = answer.addrs /\ vu_pc' = "check" /\ UNCHANGED vu_result
    /\ UNCHANGED <<vu_url, vu_mode, vu_cidrs>>

\* validate_url: the loop over addrs
validate_url_check ==
    /\ vu_pc = "check"
    /\ IF \E i \in DOMAIN vu_addrs :
            /\ is_private_ip(vu_addrs[i])
            /\ ~\E j \in DOMAIN vu_cidrs : cidr_contains(vu_cidrs[j], vu_addrs[i])
       THEN VuReturn(Err("Webhook URL resolves to private/reserved IP"))
       ELSE VuReturn(Ok)
    /\ UNCHANGED <<vu_url, vu_mode, vu_cidrs, vu_addrs>>

SsrfInit ==
    /\ vu_url \in UrlInputs
    /\ vu_mode \in {"Strict", "Relaxed"}
    /\ vu_cidrs \in CidrInputs
    /\ vu_addrs = <<>>
    /\ vu_pc = "called"
    /\ vu_result = NoResult

SsrfUnchanged ==
    UNCHANGED <<queueVars, ingestVars, fieldVars, limiterVars, authVars, regVars, dashVars, mailVars, moreVars>>

InitSsrf ==
    /\ QueueIdle /\ IngestIdle /\ FieldsIdle
    /\ checks = <<>> /\ AuthIdle
    /\ tenants = <<>> /\ advisory_lock = NoHolder
    /\ DashIdle /\ MailIdle /\ MoreIdle
    /\ SsrfInit

NextSsrf ==
    \/ validate_url_parse /\ SsrfUnchanged
    \/ validate_url_resolve /\ SsrfUnchanged
    \/ validate_url_check /\ SsrfUnchanged

SpecSsrf == InitSsrf /\ [][NextSsrf]_vars

(* ----------------------- properties of validate_url -------------------- *)
\* the private/reserved classes: IPv4 127/8, 10/8, 172.16/12, 192.168/16,
\* 169.254/16, 255.255.255.255, 0.0.0.0, 100.64/10, 198.18/15; IPv6 ::1, ::,
\* fc00::/7, fe80::/10
ReservedNets ==
    {IpNet(V4(127, 0, 0, 0), 8), IpNet(V4(10, 0, 0, 0), 8), IpNet(V4(172, 16, 0, 0), 12),
     IpNet(V4(192, 168, 0, 0), 16), IpNet(V4(169, 254, 0, 0), 16),
     IpNet(V4(255, 255, 255, 255), 32), IpNet(V4(0, 0, 0, 0), 32),
     IpNet(V4(100, 64, 0, 0), 10), IpNet(V4(198, 18, 0, 0), 15),
     IpNet(V6(<<0, 0, 0, 0, 0, 0, 0, 1>>), 128), IpNet(V6(<<0, 0, 0, 0, 0, 0, 0, 0>>), 128),
     IpNet(V6(<<64512, 0, 0, 0, 0, 0, 0, 0>>), 7), IpNet(V6(<<65152, 0, 0, 0, 0, 0, 0, 0>>), 10)}

\* the address is in a private/reserved class: in one of the nets, or an
\* IPv4-mapped address whose v4 address is
Reserved(ip) ==
    \/ \E net \in ReservedNets : cidr_contains(net, ip)
    \/ ip.v = 6 /\ cidr_contains(IpNet(V6(<<0, 0, 0, 0, 0, 65535, 0, 0>>), 96), ip)
                /\ \E net \in ReservedNets :
                      cidr_contains(net, V4(ip.parts[7] \div 256, ip.parts[7] % 256,
                                            ip.parts[8] \div 256, ip.parts[8] % 256))

\* an allow-list CIDR covers the address
Covered(ip) == \E j \in DOMAIN vu_cidrs : cidr_contains(vu_cidrs[j], ip)

\* the addresses the host of the url resolved to
Resolved == {vu_addrs[i] : i \in DOMAIN vu_addrs}

\* validate_url has returned for a http/https url in strict mode
StrictReturned ==
    /\ vu_pc = "returned" /\ vu_mode = "Strict"
    /\ vu_url.valid /\ vu_url.scheme \in {"http", "https"}

\* C20 as stated: in strict mode a http/https url is rejected exactly when at
\* least one address its host resolves to is private/reserved and not covered
\* by the allow-list.
C20_RejectedIffPrivate ==
    StrictReturned =>
        (~vu_result.ok <=> \E ip \in Resolved : Reserved(ip) /\ ~Covered(ip))

\* C20, amended: in strict mode a http/https url is rejected exactly when its
\* host does not resolve, or at least one address it resolves to is
\* private/reserved and not covered by the allow-list; so a host that resolves
\* only to such addresses is rejected and a host whose addresses are all
\* public is accepted.
C20_RejectedIffUnresolvedOrPrivate ==
    StrictReturned =>
        /\ ~vu_result.ok <=>
              (Resolved = {} \/ \E ip \in Resolved : Reserved(ip) /\ ~Covered(ip))
        /\ (Resolved # {} /\ \A ip \in Resolved : Reserved(ip) /\ ~Covered(ip))
              => ~vu_result.ok
        /\ (Resolved # {} /\ \A ip \in Resolved : ~Reserved(ip)) => vu_result.ok

\* a name that resolves to a public and a private address was rejected, with
\* an allow-list that covers neither
C20_Witness ==
    /\ StrictReturned /\ ~vu_result.ok
    /\ \E ip \in Resolved : ~Reserved(ip)
    /\ \E ip \in Resolved : Reserved(ip) /\ ~Covered(ip)
    /\ vu_cidrs # <<>>

\* C21: a url whose scheme is neither http nor https is rejected in strict
\* and in relaxed mode under every allow-list (a parsed url with the error
\* naming its scheme); in relaxed mode a http/https url is accepted and
\* validate_url neither resolves its host nor tests an address.
C21_SchemeAlwaysRelaxedUnchecked ==
    /\ (vu_pc = "returned" /\ (~vu_url.valid \/ vu_url.scheme \notin {"http", "https"}))
          => ~vu_result.ok
    /\ (vu_pc = "returned" /\ vu_url.valid /\ vu_url.scheme \notin {"http", "https"})
          => vu_result = Err("Unsupported URL scheme: " \o vu_url.scheme)
    /\ (vu_mode = "Relaxed" /\ vu_url.valid /\ vu_url.scheme \in {"http", "https"})
          => /\ vu_pc \in {"called", "returned"}
             /\ vu_addrs = <<>>
             /\ vu_pc = "returned" => vu_result = Ok

\* relaxed mode has rejected ftp://10.0.0.1 under an allow-list that covers
\* the address
C21_Witness ==
    /\ vu_pc = "returned" /\ vu_mode = "Relaxed" /\ ~vu_result.ok
    /\ vu_url.valid /\ vu_url.scheme = "ftp"
    /\ vu_url.host.name = "" /\ Covered(vu_url.host.ip)

(* --------------------------- template::render -------------------------- *)
\* A template is the concatenation of its tokens: "{", "}", ".", a word (a
\* nonempty string of \w characters), or a text that has a character other
\* than \w, ".", "{" and "}" and no brace
OtherTexts ==
    {" ", "\n", "\r\n", "http://", "https://", "ftp://", "/hook", ":8080/x", "not a url",
     "Bearer "}

IsWord(token) == token \notin {"{", "}", "."} \cup OtherTexts

RECURSIVE Str(_)
\* the string of a sequence of tokens
Str(tokens) == IF tokens = <<>> THEN "" ELSE Head(tokens) \o Str(Tail(tokens))

\* Option<String>
None == [some |-> FALSE, v |-> ""]
Some(v) == [some |-> TRUE, v |-> v]

\* Option::unwrap_or_default
unwrap_or_default(option) == IF option.some THEN option.v ELSE ""

\* json_string_field: value.get(field)?, then the text of a string, None for
\* null, the JSON text of another value
json_string_field(value, field) ==
    IF ~value.obj \/ field \notin Keys(value) THEN None
    ELSE LET member == (CHOOSE m \in value.members : m[1] = field)[2]
         IN IF member.t = "string" THEN Some(member.v)
            ELSE IF member.t = "null" THEN None
            ELSE Some(member.v)

\* path.splitn(2, '.'): the tokens up to the first ".", and those after it
\* (NoTail when the path has no ".")
NoTail == <<".">>
RECURSIVE splitn2(_)
splitn2(path) ==
    IF path = <<>> THEN [head |-> "", tail |-> NoTail]
    ELSE IF Head(path) = "." THEN [head |-> "", tail |-> Tail(path)]
    ELSE LET rest == splitn2(Tail(path))
         IN [head |-> Head(path) \o rest.head, tail |-> rest.tail]

\* resolve(path, ctx)
resolve(path, ctx) ==
    LET parts == splitn2(path)
        field == Str(parts.tail)
    IN IF parts.tail = NoTail THEN None
       ELSE IF parts.head = "data" THEN json_string_field(ctx.submission.data, field)
       ELSE IF parts.head = "extras" THEN json_string_field(ctx.submission.extras, field)
       ELSE IF parts.head = "metadata" THEN json_string_field(ctx.submission.metadata, field)
       ELSE IF parts.head = "endpoint" /\ field = "name" THEN Some(ctx.endpoint.name)
       ELSE IF parts.head = "endpoint" /\ field = "slug" THEN Some(ctx.endpoint.slug)
       ELSE IF parts.head = "endpoint" /\ field = "id" THEN Some(ctx.endpoint.id)
       ELSE IF parts.head = "project" /\ field = "name" THEN Some(ctx.project.name)
       ELSE IF parts.head = "project" /\ field = "slug" THEN Some(ctx.project.slug)
       ELSE IF parts.head = "tenant" /\ field = "name" THEN Some(ctx.tenant.name)
       ELSE IF parts.head = "submission" /\ field = "id" THEN Some(ctx.submission.id)
       ELSE IF parts.head = "submission" /\ field = "created_at"
       THEN Some(ctx.submission.created_at)
       ELSE None

RECURSIVE WordsEnd(_, _), GroupsEnd(_, _)
\* \w+ from token i on: the index after the longest run of words
WordsEnd(t, i) == IF i <= Len(t) /\ IsWord(t[i]) THEN WordsEnd(t, i + 1) ELSE i

\* (?:\.\w+)* from token i on: the index after the last group
GroupsEnd(t, i) ==
    IF i <= Len(t) /\ t[i] = "." /\ WordsEnd(t, i + 1) > i + 1
    THEN GroupsEnd(t, WordsEnd(t, i + 1))
    ELSE i

\* TEMPLATE_RE matched at token i: \{\{(\w+(?:\.\w+)*)\}\}; the index after
\* the match, or 0 for no match. Giving back a word or a group never helps the
\* match: the token after what is left is a word or a ".", not "}"
MatchEnd(t, i) ==
    IF i + 1 <= Len(t) /\ t[i] = "{" /\ t[i + 1] = "{" /\ WordsEnd(t, i + 2) > i + 2
    THEN LET p == GroupsEnd(t, WordsEnd(t, i + 2))
         IN IF p + 1 <= Len(t) /\ t[p] = "}" /\ t[p + 1] = "}" THEN p + 2 ELSE 0
    ELSE 0

\* caps[1] of the match at token i
Capture(t, i) == SubSeq(t, i + 2, MatchEnd(t, i) - 3)

RECURSIVE replace_all_KeepUnknown(_, _, _)
replace_all_KeepUnknown(t, i, ctx) ==
    IF i > Len(t) THEN <<>>
    ELSE IF MatchEnd(t, i) # 0 /\ resolve(Capture(t, i), ctx).some
    THEN <<resolve(Capture(t, i), ctx).v>> \o replace_all_KeepUnknown(t, MatchEnd(t, i), ctx)
    ELSE <<t[i]>> \o replace_all_KeepUnknown(t, i + 1, ctx)

RECURSIVE replace_all(_, _, _)
\* TEMPLATE_RE.replace_all from token i on: the leftmost match is replaced by
\* resolve(path, ctx).unwrap_or_default() and the scan goes on after it. The
\* returned string is given by its pieces, the copied tokens and the values
\* put in; Str of them is the string
replace_all(t, i, ctx) ==
    IF i > Len(t) THEN <<>>
    ELSE IF MatchEnd(t, i) # 0
    THEN <<unwrap_or_default(resolve(Capture(t, i), ctx))>> \o replace_all(t, MatchEnd(t, i), ctx)
    ELSE <<t[i]>> \o replace_all(t, i + 1, ctx)

\* render(template, ctx), by the pieces of the returned String
render(template, ctx) == replace_all(template, 1, ctx)

\* the ActionContext of the model: a submission of the endpoint "Contact"
Context(data) ==
    [submission |-> [id |-> "5e0c", data |-> data,
                     extras |-> JObject({<<"utm", JStr("ad")>>}),
                     metadata |-> JObject({<<"ip", JStr("203.0.113.7")>>}),
                     created_at |-> "2026-01-01T00:00:00+00:00"],
     endpoint |-> [id |-> "e1", name |-> "Contact", slug |-> "contact"],
     project |-> [name |-> "Site", slug |-> "site"],
     tenant |-> [name |-> "Acme"]]

\* the contexts: data is an object with a string, a null, a number and a
\* member whose key has a ".", or data is not an object
Contexts ==
    {Context(JObject({<<"name", JStr("Ann")>>, <<"data", JNull>>, <<"age", JNum("41")>>,
                      <<"name.data", JStr("dotted")>>})),
     Context(JOther(JArr("[1]")))}

\* longest template of the model, in pieces
MaxPieces == 5

\* the pieces the templates are made of
Pieces == {<<"{", "{">>, <<"}", "}">>, <<"{">>, <<".">>, <<" ">>, <<"data">>, <<"name">>}

RECURSIVE Flatten(_)
Flatten(pieces) == IF pieces = <<>> THEN <<>> ELSE Head(pieces) \o Flatten(Tail(pieces))

\* the templates: every sequence of at most MaxPieces pieces, and templates
\* with the other paths resolve knows, with two placeholders, with a
\* placeholder that holds a blank and with a lone "}"
TemplateInputs ==
    {Flatten(pieces) : pieces \in UNION {[1..n -> Pieces] : n \in 0..MaxPieces}}
        \cup {<<"{", "{", head, ".", field, "}", "}">> :
                 head \in {"extras", "metadata", "endpoint", "project", "tenant", "submission"},
                 field \in {"name", "slug", "id", "created_at", "utm", "ip"}}
        \cup {<<"Hi", " ", "{", "{", "data", ".", "name", "}", "}", " ", "of", " ",
                "{", "{", "tenant", ".", "name", "}", "}", "{", "{", "data", ".", "age", "}", "}">>,
              <<"{", "{", " ", "data", ".", "name", " ", "}", "}">>,
              <<"{", "{", "da", "ta", ".", "name", ".", "data", "}", "}", "}">>,
              <<"{", "{", "endpoint", ".", "name", ".", "slug", "}", "}">>,
              <<"{", "{", "data", "}", "{", "{", "unknown", ".", "path", "}", "}">>}

\* render(template, ctx) is called and returns
template_render ==
    /\ tp_pc = "called"
    /\ tp_result' = Str(render(tp_template, tp_ctx))
    /\ tp_pc' = "returned"
    /\ UNCHANGED <<tp_template, tp_ctx>>

TplInit ==
    /\ tp_template \in TemplateInputs
    /\ tp_ctx \in Contexts
    /\ tp_result = ""
    /\ tp_pc = "called"

TplUnchanged ==
    UNCHANGED <<queueVars, ingestVars, fieldVars, limiterVars, authVars, regVars, dashVars,
                mailVars, ssrfVars, hookVars, ipVars, poolVars, extraVars>>

InitTemplate ==
    /\ QueueIdle /\ IngestIdle /\ FieldsIdle
    /\ checks = <<>> /\ AuthIdle
    /\ tenants = <<>> /\ advisory_lock = NoHolder
    /\ DashIdle /\ MailIdle /\ SsrfIdle /\ HookIdle /\ IpIdle /\ PoolIdle /\ ExtraIdle
    /\ TplInit

NextTemplate == template_render /\ TplUnchanged

SpecTemplate == InitTemplate /\ [][NextTemplate]_vars

(* ------------------------- properties of render ------------------------ *)
\* tokens i..j are a placeholder {{path}}: two "{", a path of words joined by
\* single ".", two "}"
Placeholder(t, i, j) ==
    /\ 1 <= i /\ i + 4 <= j /\ j <= Len(t)
    /\ t[i] = "{" /\ t[i + 1] = "{" /\ t[j - 1] = "}" /\ t[j] = "}"
    /\ IsWord(t[i + 2]) /\ IsWord(t[j - 2])
    /\ \A k \in (i + 2)..(j - 2) : IsWord(t[k]) \/ (t[k] = "." /\ IsWord(t[k + 1]))

Placeholders(t) == {span \in (1..Len(t)) \X (1..Len(t)) : Placeholder(t, span[1], span[2])}

\* the resolvable paths: data.<k>, extras.<k>, metadata.<k>, endpoint.name,
\* endpoint.slug, endpoint.id, project.name, project.slug, tenant.name,
\* submission.id, submission.created_at
Resolvable(path) ==
    LET dots == {k \in DOMAIN path : path[k] = "."}
    IN /\ dots # {}
       /\ LET first == CHOOSE k \in dots : \A other \in dots : k <= other
              head == Str(SubSeq(path, 1, first - 1))
              rest == Str(SubSeq(path, first + 1, Len(path)))
          IN \/ head \in {"data", "extras", "metadata"}
             \/ <<head, rest>> \in {<<"endpoint", "name">>, <<"endpoint", "slug">>,
                                    <<"endpoint", "id">>, <<"project", "name">>,
                                    <<"project", "slug">>, <<"tenant", "name">>,
                                    <<"submission", "id">>, <<"submission", "created_at">>}

\* what token k of the template becomes: the value of the placeholder that
\* starts at k (empty when its path is not resolvable), nothing for the other
\* tokens of a placeholder, itself outside the placeholders
Rendered(t, k, ctx) ==
    IF \E span \in Placeholders(t) : span[1] = k
    THEN LET span == CHOOSE span \in Placeholders(t) : span[1] = k
             path == SubSeq(t, k + 2, span[2] - 2)
         IN IF Resolvable(path) THEN unwrap_or_default(resolve(path, ctx)) ELSE ""
    ELSE IF \E span \in Placeholders(t) : span[1] < k /\ k <= span[2] THEN ""
    ELSE t[k]

RECURSIVE RenderedFrom(_, _, _)
RenderedFrom(t, k, ctx) ==
    IF k > Len(t) THEN "" ELSE Rendered(t, k, ctx) \o RenderedFrom(t, k + 1, ctx)

\* C24: render returns a string for every template and context; a template
\* with no placeholder {{path}} is returned unchanged; each placeholder whose
\* path is not resolvable is replaced by the empty string; the text outside
\* the placeholders, braces that form no placeholder included, is kept as it
\* is and in its place.
C24_RenderTotalAndFaithful ==
    tp_pc = "returned" =>
        /\ Placeholders(tp_template) = {} => tp_result = Str(tp_template)
        /\ tp_result = RenderedFrom(tp_template, 1, tp_ctx)

\* render has returned for a template with text, an unknown placeholder and
\* braces that form no placeholder
C24_Witness ==
    /\ tp_pc = "returned"
    /\ \E span \in Placeholders(tp_template) :
          ~Resolvable(SubSeq(tp_template, span[1] + 2, span[2] - 2))
    /\ \E k \in DOMAIN tp_template :
          /\ tp_template[k] \in {"{", "}"}
          /\ ~\E span \in Placeholders(tp_template) : span[1] <= k /\ k <= span[2]
    /\ tp_result # Str(tp_template)

(* ------------------------ WebhookModule::execute ----------------------- *)
\* the texts of the model that have a CR or an LF
CrLfTexts == {"\n", "\r", "\r\n", "ok\r\nX-Evil: 1", "line1\nline2", "tab\rbed"}

\* rendered.contains('\r') || rendered.contains('\n'), for a String given by
\* its pieces
contains_crlf(rendered) == \E i \in DOMAIN rendered : rendered[i] \in CrLfTexts

\* the hosts the urls of the model name, with their text
HostTexts ==
    {[text |-> "127.0.0.1", host |-> [name |-> "", ip |-> V4(127, 0, 0, 1)]],
     [text |-> "10.0.0.1", host |-> [name |-> "", ip |-> V4(10, 0, 0, 1)]],
     [text |-> "8.8.8.8", host |-> [name |-> "", ip |-> V4(8, 8, 8, 8)]],
     [text |-> "example.com", host |-> [name |-> "example.com", ip |-> [v |-> 0, parts |-> <<>>]]]}

\* the texts Url::parse accepts in the model, with the parsed url
UrlTexts ==
    {[text |-> scheme \o "://" \o h.text \o rest,
      url |-> [valid |-> TRUE, scheme |-> scheme, host |-> h.host]] :
        scheme \in {"http", "https", "ftp"}, h \in HostTexts, rest \in {"/hook", ":8080/x"}}

\* reqwest::Url::parse: "not a url" has no scheme and is an error; the other
\* url texts of the model parse
UrlParse(text) ==
    IF text = "not a url"
    THEN [valid |-> FALSE, scheme |-> "", host |-> CHOOSE h \in Hosts : h.name # ""]
    ELSE (CHOOSE u \in UrlTexts : u.text = text).url

\* config["url"]: a string given as a template, or no string
NoUrl == <<"{", "}">>
UrlTemplates ==
    {NoUrl,
     <<"http://", "127", ".", "0", ".", "0", ".", "1", ":8080/x">>,
     <<"http://", "{", "{", "data", ".", "host", "}", "}", "/hook">>,
     <<"https://", "{", "{", "data", ".", "host", "}", "}", ":8080/x">>,
     <<"ftp://", "{", "{", "data", ".", "host", "}", "}", "/hook">>,
     <<"not a url">>}

\* config["headers"]: the members of the object in the order the map yields
\* them; a value is a string given as a template, or not a string
Header(k, v) == [k |-> k, string |-> TRUE, v |-> v]
HeaderNoString(k) == [k |-> k, string |-> FALSE, v |-> <<>>]
HeaderInputs ==
    {<<>>,
     <<Header("Authorization", <<"Bearer ", "abc">>)>>,
     <<Header("X-Note", <<"{", "{", "data", ".", "note", "}", "}">>)>>,
     <<HeaderNoString("X-Count"), Header("X-Note", <<"{", "{", "data", ".", "note", "}", "}">>)>>,
     <<Header("X-A", <<"a", "\r\n", "b">>), Header("X-Note", <<"{", "{", "data", ".", "note", "}", "}">>)>>,
     <<Header("X-Tenant", <<"{", "{", "tenant", ".", "name", "}", "}">>), Header("X-B", <<"\n">>)>>}

ConfigInputs ==
    {[url |-> url, method |-> method, headers |-> headers] :
        url \in UrlTemplates, method \in {"POST", "PUT", "GET"}, headers \in HeaderInputs}

\* the contexts of the executions: data.host names the host, data.note is a
\* text with or without CR and LF
HookContexts ==
    {Context(JObject({<<"host", JStr(h.text)>>, <<"note", JStr(note)>>})) :
        h \in HostTexts, note \in {"ok", "ok\r\nX-Evil: 1", "tab\rbed"}}

\* the caller of execute (worker::process_next, pipeline::run) under its 30 s
\* timeout: Ok(Err(e)) => ("failed", e.message)
ExecuteErr(message) ==
    /\ wh_status' = [status |-> "failed", error |-> message]
    /\ wh_pc' = "returned"

\* execute: config["url"].as_str(), template::render, the call of validate_url
webhook_execute_url ==
    /\ wh_pc = "called"
    /\ IF wh_config.url = NoUrl
       THEN ExecuteErr("url is required") /\ UNCHANGED <<wh_url, ssrfVars>>
       ELSE /\ wh_url' = Str(render(wh_config.url, wh_ctx))
            /\ vu_url' = UrlParse(wh_url')
            /\ vu_pc' = "called"
            /\ wh_pc' = "validate"
            /\ UNCHANGED <<wh_status, vu_mode, vu_cidrs, vu_addrs, vu_result>>
    /\ UNCHANGED <<wh_config, wh_ctx, wh_req, wh_header, wh_sent>>

\* execute with validate_url's result dropped
webhook_execute_validated_Unchecked ==
    /\ wh_pc = "validate" /\ vu_pc = "returned"
    /\ wh_req' = [method |-> IF wh_config.method = "PUT" THEN "PUT" ELSE "POST",
                  url |-> wh_url,
                  headers |-> <<<<"Content-Type", "application/json">>>>]
    /\ wh_header' = 1
    /\ wh_pc' = "headers"
    /\ UNCHANGED <<wh_status, wh_config, wh_ctx, wh_url, wh_sent, ssrfVars>>

\* execute: validate_url(...)? has returned; config["method"], the body and
\* client.put/post(&url).header("Content-Type", "application/json")
webhook_execute_validated ==
    /\ wh_pc = "validate" /\ vu_pc = "returned"
    /\ IF ~vu_result.ok
       THEN ExecuteErr(vu_result.error) /\ UNCHANGED <<wh_req, wh_header>>
       ELSE /\ wh_req' = [method |-> IF wh_config.method = "PUT" THEN "PUT" ELSE "POST",
                          url |-> wh_url,
                          headers |-> <<<<"Content-Type", "application/json">>>>]
            /\ wh_header' = 1
            /\ wh_pc' = "headers"
            /\ UNCHANGED wh_status
    /\ UNCHANGED <<wh_config, wh_ctx, wh_url, wh_sent, ssrfVars>>

\* execute: one turn of the loop over config["headers"]
webhook_execute_header ==
    /\ wh_pc = "headers"
    /\ IF wh_header > Len(wh_config.headers)
       THEN wh_pc' = "send" /\ UNCHANGED <<wh_req, wh_header, wh_status>>
       ELSE LET header == wh_config.headers[wh_header]
                rendered == render(header.v, wh_ctx)
            IN IF ~header.string
               THEN wh_header' = wh_header + 1 /\ UNCHANGED <<wh_pc, wh_req, wh_status>>
               ELSE IF contains_crlf(rendered)
               THEN /\ ExecuteErr("Header value for '" \o header.k
                                      \o "' contains invalid characters")
                    /\ UNCHANGED <<wh_req, wh_header>>
               ELSE /\ wh_req' = [wh_req EXCEPT !.headers = Append(@, <<header.k, Str(rendered)>>)]
                    /\ wh_header' = wh_header + 1
                    /\ UNCHANGED <<wh_pc, wh_status>>
    /\ UNCHANGED <<wh_config, wh_ctx, wh_url, wh_sent, ssrfVars>>

\* what comes back for a request: a status code, a transport failure, or the
\* caller's timeout
SendOutcomes ==
    {[kind |-> "response", code |-> code] : code \in {200, 204, 302, 500}}
        \cup {[kind |-> "transport", code |-> 0], [kind |-> "timeout", code |-> 0]}

\* execute: req.json(&body).send().await and the classification of the answer
webhook_execute_send ==
    /\ wh_pc = "send"
    /\ wh_sent' = Append(wh_sent, wh_req)
    /\ \E outcome \in SendOutcomes :
          wh_status' =
            IF outcome.kind = "transport"
            THEN [status |-> "failed", error |-> "Webhook request failed"]
            ELSE IF outcome.kind = "timeout"
            THEN [status |-> "failed", error |-> "Action timed out after 30s"]
            ELSE IF outcome.code >= 200 /\ outcome.code < 300
            THEN [status |-> "success", error |-> NoError]
            ELSE [status |-> "failed", error |-> NoError]
    /\ wh_pc' = "returned"
    /\ UNCHANGED <<wh_config, wh_ctx, wh_url, wh_req, wh_header, ssrfVars>>

HookInit ==
    /\ wh_config \in ConfigInputs
    /\ wh_ctx \in HookContexts
    /\ wh_pc = "called"
    /\ wh_url = ""
    /\ wh_req = NoReq
    /\ wh_header = 0
    /\ wh_sent = <<>>
    /\ wh_status = NoStatus

\* WebhookModule::new(ssrf_mode, allowed_cidrs)
HookModule ==
    /\ vu_url = "none"
    /\ vu_mode \in {"Strict", "Relaxed"}
    /\ vu_cidrs \in CidrInputs
    /\ vu_addrs = <<>>
    /\ vu_pc = "idle"
    /\ vu_result = NoResult

HookUnchanged ==
    UNCHANGED <<queueVars, ingestVars, fieldVars, limiterVars, authVars, regVars, dashVars,
                mailVars, tplVars, ipVars, poolVars, extraVars>>

InitWebhook ==
    /\ QueueIdle /\ IngestIdle /\ FieldsIdle
    /\ checks = <<>> /\ AuthIdle
    /\ tenants = <<>> /\ advisory_lock = NoHolder
    /\ DashIdle /\ MailIdle /\ TplIdle /\ IpIdle /\ PoolIdle /\ ExtraIdle
    /\ HookModule
    /\ HookInit

NextWebhook ==
    \/ webhook_execute_url /\ HookUnchanged
    \/ validate_url_parse /\ UNCHANGED hookVars /\ HookUnchanged
    \/ validate_url_resolve /\ UNCHANGED hookVars /\ HookUnchanged
    \/ validate_url_check /\ UNCHANGED hookVars /\ HookUnchanged
    \/ webhook_execute_validated /\ HookUnchanged
    \/ webhook_execute_header /\ HookUnchanged
    \/ webhook_execute_send /\ HookUnchanged

SpecWebhook == InitWebhook /\ [][NextWebhook]_vars

(* ---------------------- properties of the webhook ---------------------- *)
\* the headers of the config whose rendered value has a CR or an LF
BadHeaders ==
    {i \in DOMAIN wh_config.headers :
        /\ wh_config.headers[i].string
        /\ \E piece \in {render(wh_config.headers[i].v, wh_ctx)[j] :
                            j \in DOMAIN render(wh_config.headers[i].v, wh_ctx)} :
              piece \in CrLfTexts}

\* the SSRF check has rejected the rendered url
UrlRejected == vu_pc = "returned" /\ ~vu_result.ok

\* C22: when validate_url rejects the rendered url, or a rendered header value
\* has a CR or an LF, no request is ever sent, and the execution ends failed
\* with validate_url's error, or else with "Header value for '<key>' contains
\* invalid characters" naming the first such header.
C22_NoRequestWhenRejected ==
    (wh_config.url # NoUrl /\ (UrlRejected \/ BadHeaders # {})) =>
        /\ wh_sent = <<>>
        /\ wh_pc \notin {"send"}
        /\ wh_pc = "returned" =>
              /\ wh_status.status = "failed"
              /\ wh_status.error =
                    IF UrlRejected THEN vu_result.error
                    ELSE "Header value for '"
                            \o wh_config.headers[CHOOSE i \in BadHeaders :
                                                    \A j \in BadHeaders : i <= j].k
                            \o "' contains invalid characters"
              /\ UrlRejected =>
                    vu_result.error \in {"Invalid webhook URL", "Unsupported URL scheme: ftp",
                                         "Failed to resolve host", "Could not resolve host",
                                         "Webhook URL resolves to private/reserved IP"}

\* an execution whose url passed the strict check has ended failed on the
\* second header, whose value was rendered with a CR and an LF in it
C22_Witness ==
    /\ wh_pc = "returned" /\ wh_sent = <<>> /\ wh_status.status = "failed"
    /\ vu_mode = "Strict" /\ vu_pc = "returned" /\ vu_result.ok
    /\ BadHeaders = {2} /\ wh_config.headers[2].k = "X-Note"
    /\ wh_status.error = "Header value for 'X-Note' contains invalid characters"

\* the execution for http://127.0.0.1:8080/x under strict mode and the empty
\* allow-list has ended failed on the SSRF check
C22_LoopbackRejected ==
    /\ wh_pc = "returned" /\ wh_sent = <<>> /\ wh_status.status = "failed"
    /\ wh_url = "http://127.0.0.1:8080/x" /\ vu_mode = "Strict" /\ vu_cidrs = <<>>
    /\ wh_status.error = "Webhook URL resolves to private/reserved IP"

(* ------------------------- metadata::extract_ip ------------------------ *)
\* an entry of an X-Forwarded-For line, between two commas: the text of an
\* address (blanks around it or not), another text of visible ASCII, or a
\* text with a byte HeaderValue::to_str rejects
XffAddr(ip) == [kind |-> "addr", ip |-> ip]
XffText == [kind |-> "text", ip |-> NoIp]
XffOpaque == [kind |-> "opaque", ip |-> NoIp]

\* HeaderValue::to_str: Ok for a line of visible ASCII
to_str_ok(line) == \A i \in DOMAIN line : line[i].kind # "opaque"

\* trusted_proxies.iter().any(|net| net.contains(&ip))
any_contains(trusted_proxies, ip) ==
    \E i \in DOMAIN trusted_proxies : cidr_contains(trusted_proxies[i], ip)

\* the loop over xff.split(','): the first entry that parses as an IpAddr and
\* is in no trusted net, or NoIp
first_untrusted(line, trusted_proxies) ==
    LET hits == {i \in DOMAIN line :
                    line[i].kind = "addr" /\ ~any_contains(trusted_proxies, line[i].ip)}
    IN IF hits = {} THEN NoIp
       ELSE line[CHOOSE i \in hits : \A j \in hits : i <= j].ip

\* extract_ip(headers, peer_addr, trusted_proxies); headers.get gives the
\* first X-Forwarded-For line
extract_ip(xff, peer, trusted_proxies) ==
    IF /\ trusted_proxies # <<>> /\ any_contains(trusted_proxies, peer)
       /\ xff # <<>> /\ to_str_ok(xff[1])
       /\ first_untrusted(xff[1], trusted_proxies) # NoIp
    THEN first_untrusted(xff[1], trusted_proxies)
    ELSE peer

\* most entries of an X-Forwarded-For line
MaxEntries == 3

\* the entries: two proxies inside 10.0.0.0/8, two clients, the mapped form
\* ::ffff:10.0.0.1 of a proxy, and texts that are no address
XffEntries ==
    {XffAddr(V4(10, 0, 0, 1)), XffAddr(V4(8, 8, 8, 8)), XffAddr(V4(203, 0, 113, 7)),
     XffAddr(V6(<<0, 0, 0, 0, 0, 65535, 2560, 1>>)), XffText, XffOpaque}

XffLines == UNION {[1..n -> XffEntries] : n \in 0..MaxEntries}

\* the requests' X-Forwarded-For: none, one line, or two lines
XffInputs ==
    {<<>>} \cup {<<line>> : line \in XffLines}
        \cup {<<line, second>> : line \in XffLines,
                                 second \in {<<XffAddr(V4(8, 8, 8, 8))>>,
                                             <<XffAddr(V4(10, 0, 0, 1))>>}}

\* the socket peers: a proxy, a client, and a client at a reserved address
PeerInputs == {V4(10, 0, 0, 1), V4(203, 0, 113, 7), V4(127, 0, 0, 1)}

\* WEBHOOKER_TRUSTED_PROXIES: empty, 10.0.0.0/8, or 10.0.0.0/8 and ::1/128
ProxyInputs ==
    {<<>>, <<IpNet(V4(10, 0, 0, 0), 8)>>,
     <<IpNet(V4(10, 0, 0, 0), 8), IpNet(V6(<<0, 0, 0, 0, 0, 0, 0, 1>>), 128)>>}

\* metadata::extract calls extract_ip and it returns
metadata_extract_ip ==
    /\ ip_pc = "called"
    /\ ip_result' = extract_ip(ip_xff, ip_peer, ip_proxies)
    /\ ip_pc' = "returned"
    /\ UNCHANGED <<ip_peer, ip_xff, ip_proxies>>

IpInit ==
    /\ ip_peer \in PeerInputs
    /\ ip_xff \in XffInputs
    /\ ip_proxies \in ProxyInputs
    /\ ip_result = NoIp
    /\ ip_pc = "called"

IpUnchanged ==
    UNCHANGED <<queueVars, ingestVars, fieldVars, limiterVars, authVars, regVars, dashVars,
                mailVars, ssrfVars, tplVars, hookVars, poolVars,
                extraVars>>

InitClientIp ==
    /\ QueueIdle /\ IngestIdle /\ FieldsIdle
    /\ checks = <<>> /\ AuthIdle
    /\ tenants = <<>> /\ advisory_lock = NoHolder
    /\ DashIdle /\ MailIdle /\ SsrfIdle /\ TplIdle /\ HookIdle /\ PoolIdle /\ ExtraIdle
    /\ IpInit

NextClientIp == metadata_extract_ip /\ IpUnchanged

SpecClientIp == InitClientIp /\ [][NextClientIp]_vars

(* ----------------------- properties of extract_ip ---------------------- *)
\* the address is inside a trusted-proxy CIDR
Trusted(ip) == \E i \in DOMAIN ip_proxies : cidr_contains(ip_proxies[i], ip)

\* the entries of the X-Forwarded-For header, left to right over its lines
RECURSIVE XffAll(_)
XffAll(xff) == IF xff = <<>> THEN <<>> ELSE Head(xff) \o XffAll(Tail(xff))

\* the X-Forwarded-For addresses that are no trusted proxy, by position
Qualifying == {i \in DOMAIN XffAll(ip_xff) :
                  XffAll(ip_xff)[i].kind = "addr" /\ ~Trusted(XffAll(ip_xff)[i].ip)}

\* C23, first half: with a peer outside every trusted-proxy CIDR the recorded
\* ip is the peer's, whatever X-Forwarded-For holds.
C23_UntrustedPeerIsRecorded ==
    (ip_pc = "returned" /\ ~Trusted(ip_peer)) => ip_result = ip_peer

\* C23: the recorded ip is the peer's when the peer is outside every
\* trusted-proxy CIDR; when the peer is a trusted proxy it is the leftmost
\* X-Forwarded-For address that is no trusted proxy, or the peer's if there is
\* none.
C23_ClientIp ==
    ip_pc = "returned" =>
        ip_result =
            IF ~Trusted(ip_peer) \/ Qualifying = {} THEN ip_peer
            ELSE XffAll(ip_xff)[CHOOSE i \in Qualifying : \A j \in Qualifying : i <= j].ip

(* -------------------- properties of the error responses ---------------- *)
\* C25: no response carries database or internal error text: every response
\* of status 500, the answers to a failed endpoint lookup and to a failed
\* store of the submission included, has the message "Internal server error".
C25_GenericInternalError ==
    \A r \in RequestIds :
        requests[r].response.status = 500 =>
            requests[r].response.body = "Internal server error"

(* ------------------------- worker::run, shutdown ----------------------- *)
\* The run loop of a worker around process_next, the shutdown flag main sets
\* and the join of the pool. The database statements of process_next succeed
\* here: the `?` returns of its lookups are left out.
PoolOnly ==
    UNCHANGED <<queueVars, ingestVars, fieldVars, limiterVars, authVars, regVars, dashVars,
                mailVars, ssrfVars, tplVars, hookVars, ipVars, extraVars>>

RunGoto(w, pc) == run_pc' = [run_pc EXCEPT ![w] = pc]

\* main: let _ = shutdown_tx.send(true), after axum::serve has returned
main_shutdown ==
    /\ ~shutdown
    /\ shutdown' = TRUE
    /\ flag_item' = [w \in Workers |-> worker_item[w].id]
    /\ UNCHANGED <<run_pc, joined>>
    /\ PoolOnly

run_check_Never(w) ==
    /\ run_pc[w] = "check"
    /\ RunGoto(w, "call")
    /\ UNCHANGED <<shutdown, joined, flag_item>>
    /\ PoolOnly

\* run: if *shutdown.borrow() { break; }, else process_next is called
run_check(w) ==
    /\ run_pc[w] = "check"
    /\ RunGoto(w, IF shutdown THEN "stopped" ELSE "call")
    /\ UNCHANGED <<shutdown, joined, flag_item>>
    /\ PoolOnly

\* process_next: claim_next returns no row, return Ok(false); run goes on to
\* its select!. (A row claim_next_select no longer follows counts as no row.)
process_next_none(w) ==
    /\ run_pc[w] = "call" /\ worker_pc[w] = "idle"
    /\ ~\E id \in ClaimCandidates : action_queue[id].attempts <= action_queue[id].max_attempts
    /\ RunGoto(w, "select")
    /\ UNCHANGED <<shutdown, joined, flag_item>>
    /\ PoolOnly

\* process_next: let item = match item { Some(item) => item, .. }
process_next_item(w) ==
    /\ run_pc[w] = "call" /\ worker_pc[w] = "find_action"
    /\ RunGoto(w, "item")
    /\ UNCHANGED <<shutdown, joined, flag_item>>
    /\ PoolOnly

\* run: process_next returned Ok(true) => continue
run_continue(w) ==
    /\ run_pc[w] = "item" /\ worker_pc[w] = "idle"
    /\ RunGoto(w, "check")
    /\ UNCHANGED <<shutdown, joined, flag_item>>
    /\ PoolOnly

\* run, select!: shutdown.changed() is ready, this receiver has not seen the
\* value main sent; the loop starts over
run_changed(w) ==
    /\ run_pc[w] = "select" /\ shutdown
    /\ RunGoto(w, "check")
    /\ UNCHANGED <<shutdown, joined, flag_item>>
    /\ PoolOnly

\* run, select!: tokio::time::sleep(1 s) has elapsed; the loop starts over
run_slept(w) ==
    /\ run_pc[w] = "select"
    /\ RunGoto(w, "check")
    /\ UNCHANGED <<shutdown, joined, flag_item>>
    /\ PoolOnly

\* run_pool: every handle.await has returned, block_on returns and the thread
\* ends; main's worker_pool.join() returns
pool_join ==
    /\ shutdown /\ ~joined
    /\ \A w \in Workers : run_pc[w] = "stopped"
    /\ joined' = TRUE
    /\ UNCHANGED <<shutdown, run_pc, flag_item>>
    /\ PoolOnly

\* a step of worker w inside process_next
process_next_step(w) ==
    \/ run_pc[w] = "call" /\ claim_next_select(w)
    \/ run_pc[w] = "call" /\ claim_next_update(w)
    \/ run_pc[w] = "item" /\ find_action(w) /\ worker_pc'[w] # "idle"
    \/ run_pc[w] = "item" /\ find_submission(w) /\ worker_pc'[w] # "idle"
    \/ run_pc[w] = "item" /\ load_context(w)
    \/ run_pc[w] = "item" /\ mark_failed_missing(w)
    \/ run_pc[w] = "item" /\ log_missing(w)
    \/ run_pc[w] = "item" /\ execute(w)
    \/ run_pc[w] = "item" /\ log_result(w)
    \/ run_pc[w] = "item" /\ mark_result(w)

\* a step of worker w that does not wait for the clock
run_step(w) ==
    \/ run_check(w)
    \/ process_next_none(w)
    \/ process_next_item(w)
    \/ process_next_step(w)
    \/ run_continue(w)
    \/ run_changed(w)

\* run_pool has spawned the workers; the database holds the actions, and the
\* endpoint and the submission unless they have been deleted
PoolInit ==
    /\ shutdown = FALSE
    /\ run_pc = [w \in Workers |-> "check"]
    /\ joined = FALSE
    /\ flag_item = [w \in Workers |-> NoRow]

PoolWorld ==
    /\ endpoint \in {NoEndpoint, EndpointRow}
    /\ actions = ActionsTable
    /\ submissions \in {<<>>, <<SubmissionRow(EmptyObject, EmptyObject, EmptyObject, NoRow)>>}
    /\ limiter = <<>>
    /\ requests = <<>>

InitShutdown ==
    /\ QueueIdle /\ PoolWorld /\ FieldsIdle
    /\ checks = <<>> /\ AuthIdle
    /\ tenants = <<>> /\ advisory_lock = NoHolder
    /\ DashIdle /\ MailIdle /\ SsrfIdle /\ TplIdle /\ HookIdle /\ IpIdle /\ ExtraIdle
    /\ PoolInit

\* the clock is held at its initial reading: a retry coming due is the queue
\* specification's subject, the loop's exit needs none
NextShutdown ==
    \/ Enqueue
    \/ main_shutdown
    \/ \E w \in Workers : run_check(w)
    \/ \E w \in Workers : process_next_none(w)
    \/ \E w \in Workers : process_next_item(w)
    \/ \E w \in Workers : process_next_step(w)
    \/ \E w \in Workers : run_continue(w)
    \/ \E w \in Workers : run_changed(w)
    \/ \E w \in Workers : run_slept(w)
    \/ pool_join

\* the runtime schedules every worker task and the database answers; nothing
\* is assumed of the timers, the clock, the producers or the moment main
\* sends the flag
SpecShutdown ==
    /\ InitShutdown /\ [][NextShutdown]_vars
    /\ \A w \in Workers : WF_vars(run_step(w))
    /\ WF_vars(pool_join)

(* ------------------------ properties of shutdown ----------------------- *)
\* this step is a claim by worker w
Claims(w) == worker_item[w] = NoItem /\ worker_item'[w] # NoItem

\* worker w has stopped
Stopped(w) == run_pc[w] = "stopped"

StatusEdge(id, from, to) ==
    /\ action_queue[id].status = from
    /\ action_queue'[id].status = to

\* this step is worker w's mark_completed or mark_failed of the row it holds
Marks(w, id) ==
    /\ worker_item[w].id = id
    /\ worker_pc[w] \in {"mark", "action_missing", "submission_missing", "context_missing"}
    /\ action_queue'[id] # action_queue[id]

\* the status changes of a step are claims of pending or failed rows whose
\* retry time has come and marks of processing rows by the worker that holds
\* them; marks touch processing rows only
EdgesOfClaimAndMark ==
    \A id \in RowIds :
        /\ action_queue'[id].status # action_queue[id].status =>
             \/ /\ \/ StatusEdge(id, "pending", "processing")
                   \/ StatusEdge(id, "failed", "processing")
                /\ action_queue[id].next_retry_at <= now
                /\ \E w \in Workers : ClaimReturns(w, id)
             \/ /\ \/ StatusEdge(id, "processing", "completed")
                   \/ StatusEdge(id, "processing", "failed")
                /\ \E w \in Workers : Marks(w, id)
        /\ \A w \in Workers : Marks(w, id) => action_queue[id].status = "processing"

\* C27 without its attempts test, which holds: every status change is a claim
\* of a due pending or failed row or a mark of a processing row.
C27_EdgesWithoutAttemptsTest == [][EdgesOfClaimAndMark]_vars

\* C27: every change of a row's status is pending to processing by a claim,
\* failed to processing by a claim while attempts < max_attempts and
\* next_retry_at <= now, processing to completed or processing to failed, and
\* mark_completed/mark_failed are applied to processing rows only.
C27_OnlySpecifiedEdges ==
    [][/\ EdgesOfClaimAndMark
       /\ \A id \in RowIds :
            StatusEdge(id, "failed", "processing") =>
                action_queue[id].attempts < action_queue[id].max_attempts]_vars

(* ---------------------- claim_next on bounded tables ------------------- *)
\* most rows of a table claim_next is run on
MaxRows == 2

\* clock readings and retry times of the tables
ClaimTimes == 0..2

\* a row as the queue leaves it between two claims: pending since its insert,
\* failed once with a retry time, failed for the last time, or completed
QueueRowIn(status, attempts, retry_at, done) ==
    [submission_id |-> 1, action_id |-> 1, status |-> status, attempts |-> attempts,
     max_attempts |-> DefaultMaxAttempts,
     last_error |-> IF status = "failed" THEN "error" ELSE NoError,
     next_retry_at |-> retry_at,
     completed_at |-> IF done THEN retry_at ELSE NULL]

ClaimRows ==
    UNION {{QueueRowIn("pending", 0, t, FALSE),
            QueueRowIn("failed", 1, t, FALSE),
            QueueRowIn("failed", DefaultMaxAttempts, t, TRUE),
            QueueRowIn("completed", 1, t, TRUE)} : t \in ClaimTimes}

ClaimTables == UNION {[1..n -> ClaimRows] : n \in 1..MaxRows}

\* every worker is inside process_next, about to run claim_next; a pending
\* row's retry time is the time of its insert
InitClaim ==
    /\ now \in ClaimTimes
    /\ action_queue \in ClaimTables
    /\ \A id \in DOMAIN action_queue :
         action_queue[id].status \in {"pending", "completed"} =>
             action_queue[id].next_retry_at <= now
    /\ action_log = EmptyBag
    /\ worker_pc = [w \in Workers |-> "idle"]
    /\ worker_lock = [w \in Workers |-> NoRow]
    /\ worker_item = [w \in Workers |-> NoItem]
    /\ worker_status = [w \in Workers |-> NoStatus]
    /\ IngestIdle /\ FieldsIdle
    /\ checks = <<>> /\ AuthIdle
    /\ tenants = <<>> /\ advisory_lock = NoHolder
    /\ DashIdle /\ MailIdle /\ SsrfIdle /\ TplIdle /\ HookIdle /\ IpIdle /\ ExtraIdle
    /\ shutdown = FALSE /\ joined = FALSE
    /\ run_pc = [w \in Workers |-> "call"]
    /\ flag_item = [w \in Workers |-> NoRow]

NextClaim ==
    \/ \E w \in Workers : run_pc[w] = "call" /\ claim_next_select(w)
    \/ \E w \in Workers : run_pc[w] = "call" /\ claim_next_update(w)
    \/ \E w \in Workers : process_next_none(w)

SpecClaim == InitClaim /\ [][NextClaim]_vars

(* ----------------------- properties of claim_next ---------------------- *)
\* row id satisfies claim_next's WHERE clause as the claim words it
Due(id) ==
    /\ action_queue[id].status = "pending" \/ action_queue[id].status = "failed"
    /\ action_queue[id].next_retry_at <= now

\* row id is not locked by a session other than w's
Free(w, id) == \A other \in Workers \ {w} : worker_lock[other] # id

\* this step is the inner SELECT of w's claim_next locking row id
Selects(w, id) ==
    /\ worker_pc[w] = "idle"
    /\ worker_pc'[w] = "claim_update"
    /\ worker_lock'[w] = id

\* this step is w's claim_next returning no row
NoWork(w) == run_pc[w] = "call" /\ run_pc'[w] = "select"

\* C28: the row claim_next takes is due and not locked by another session,
\* and no due, unlocked row has an earlier next_retry_at; the row returned is
\* the row taken; claim_next returns no row only when no due, unlocked row
\* exists.
C28_OldestClaimableFirst ==
    [][\A w \in Workers :
        /\ \A id \in RowIds :
             /\ Selects(w, id) =>
                  /\ Due(id) /\ Free(w, id)
                  /\ \A other \in RowIds :
                       (Due(other) /\ Free(w, other)) =>
                           action_queue[id].next_retry_at <= action_queue[other].next_retry_at
             /\ ClaimReturns(w, id) =>
                  /\ worker_lock[w] = id
                  /\ action_queue'[id].status = "processing"
        /\ NoWork(w) => ~\E id \in RowIds : Due(id) /\ Free(w, id)]_vars

\* a worker holds the row with the earlier retry time while a due row with a
\* later one is still waiting and the other worker is about to claim
C28_Witness ==
    \E w, w2 \in Workers : \E id, other \in RowIds :
        /\ Holds(w, id)
        /\ Due(other)
        /\ action_queue[id].next_retry_at < action_queue[other].next_retry_at
        /\ run_pc[w2] = "call" /\ worker_pc[w2] = "idle"

(* ------------------------- the retry delays ---------------------------- *)
\* this step is mark_failed recording a failure of row id that leaves it
\* to be retried; attempts, set by the claim, is the number of the failure
SchedulesRetry(id) ==
    /\ StatusEdge(id, "processing", "failed")
    /\ action_queue[id].attempts < action_queue[id].max_attempts

\* the delay this step gives row id
RetryDelay(id) == action_queue'[id].next_retry_at - now

\* C29 as stated: the Nth failure of a row schedules its retry 2^(N-1)
\* seconds later, 1 s after the first failure, with no jitter.
C29_DelaysFromOneSecond ==
    [][\A id \in RowIds :
        SchedulesRetry(id) => RetryDelay(id) = 2 ^ (action_queue[id].attempts - 1)]_vars

\* C29 amended: the Nth failure of a row schedules its retry exactly 2^N
\* seconds later, 2 s after the first failure and doubling with each further
\* one; the last failure (attempts = max_attempts) schedules none.
C29_DelaysFromTwoSeconds ==
    [][\A id \in RowIds :
        /\ SchedulesRetry(id) => RetryDelay(id) = 2 ^ action_queue[id].attempts
        /\ ( /\ StatusEdge(id, "processing", "failed")
             /\ action_queue[id].attempts >= action_queue[id].max_attempts )
           => action_queue'[id].next_retry_at = action_queue[id].next_retry_at]_vars

\* the second failure of a row has just been recorded, four seconds ahead,
\* after the first was recorded two seconds ahead
C29_Witness ==
    \E id \in RowIds :
        /\ action_queue[id].status = "failed"
        /\ action_queue[id].attempts = 2
        /\ action_queue[id].next_retry_at = now + 4
        /\ now >= 2

(* --------------------- missing dependencies ---------------------------- *)
\* this step ends w's process_next on one of the paths in `paths`
ReturnsFrom(w, paths) == worker_pc[w] \in paths /\ worker_pc'[w] = "idle"

\* this step appends one failed ActionLog row for the item w holds
LogsFailure(w) ==
    LET row == LogRow(worker_item[w].action_id, worker_item[w].submission_id,
                      "failed", "worker")
    IN CopiesIn(row, action_log') = CopiesIn(row, action_log) + 1

\* this step is the mark_failed of the paths in `paths`: the row w holds
\* becomes failed with the path's error, the attempt staying counted
MarksMissing(w, paths) ==
    (worker_pc[w] \in paths /\ worker_pc'[w] # worker_pc[w]) =>
        LET id == worker_item[w].id
        IN /\ action_queue'[id].status = "failed"
           /\ action_queue'[id].last_error = worker_status[w].error
           /\ action_queue'[id].attempts = worker_item[w].attempts
           /\ action_queue'[id].attempts >= 1

\* on the paths in `paths` the worker marks the item failed and returns from
\* process_next with the step that appends the failed ActionLog row
MissingMarkedAndLogged(paths) ==
    \A w \in Workers :
        /\ MarksMissing(w, paths)
        /\ ReturnsFrom(w, paths \cup {"log_missing"}) => LogsFailure(w)

\* C30 for a missing action and a missing endpoint, project or tenant, which
\* holds: the item is marked failed and a failed ActionLog row is appended.
C30_ActionOrContextMissing ==
    [][MissingMarkedAndLogged({"action_missing", "context_missing"})]_vars

\* C30: when the action, the submission, or the endpoint, project or tenant
\* of a claimed item is missing, the worker marks the item failed with the
\* specific error, the attempt counted, and appends a failed ActionLog row.
C30_MissingDependencyLogged ==
    [][MissingMarkedAndLogged({"action_missing", "submission_missing",
                               "context_missing"})]_vars

(* ------------------------- unknown modules ----------------------------- *)
\* the action of this ActionLog row has a type no module is registered for
UnknownModule(action_id) ==
    /\ \E i \in DOMAIN actions : actions[i].id = action_id
    /\ ActionRow(action_id).action_type \notin Registry

\* the worker's part of C31, which holds: the run of an action of unknown type
\* gives failed with "Unknown module: X", mark_failed records that error with
\* the attempt counted, and the attempt numbered max_attempts leaves the row
\* failed with completed_at set.
C31_WorkerUnknownModule ==
    [][\A w \in Workers :
        LET id == worker_item[w].id
        IN /\ ( /\ worker_pc[w] = "execute" /\ worker_pc'[w] = "log"
                /\ UnknownModule(worker_item[w].action_id) )
              => worker_status'[w] =
                   [status |-> "failed",
                    error |-> "Unknown module: "
                              \o ActionRow(worker_item[w].action_id).action_type]
           /\ ( /\ worker_pc[w] = "mark" /\ worker_pc'[w] = "idle"
                /\ UnknownModule(worker_item[w].action_id) )
              => /\ StatusEdge(id, "processing", "failed")
                 /\ action_queue'[id].last_error = worker_status[w].error
                 /\ action_queue'[id].attempts = worker_item[w].attempts
                 /\ worker_item[w].attempts >= worker_item[w].max_attempts
                      => action_queue'[id].completed_at # NULL]_vars

\* C31: every recorded attempt of an action whose type has no registered
\* module is recorded as failed.
C31_UnknownModuleRecordedFailed ==
    \A row \in BagToSet(action_log) :
        UnknownModule(row.action_id) => row.status = "failed"

(* ------------------- module results in process_next -------------------- *)
\* what tokio::time::timeout(30 s, module.execute(..)).await gives:
\* Ok(Ok(result)), Ok(Err(e)) or Err(Elapsed)
ResultOk(status, response) ==
    [kind |-> "ok", status |-> status, response |-> response, message |-> ""]
ResultErr(message) ==
    [kind |-> "err", status |-> "none", response |-> ResponseNone, message |-> message]
ResultElapsed ==
    [kind |-> "elapsed", status |-> "none", response |-> ResponseNone, message |-> ""]

\* the responses of the results: none, an object with an error string, with
\* an error that is no string, without an error, and a value that is no object
Responses ==
    {ResponseNone,
     ResponseSome(JObject({<<"error", JStr("HTTP 500")>>})),
     ResponseSome(JObject({<<"error", JNum("500")>>})),
     ResponseSome(JObject({<<"status_code", JNum("200")>>})),
     ResponseSome(JOther(JStr("HTTP 500")))}

ModuleResults ==
    {ResultOk(status, response) : status \in {"success", "failed"}, response \in Responses}
        \cup {ResultErr("Missing or invalid 'url' in webhook config"), ResultElapsed}

\* the match on the timeout's result: (status, response)
status_response(result) ==
    IF result.kind = "ok"
    THEN [status |-> result.status, response |-> result.response]
    ELSE IF result.kind = "err"
    THEN [status |-> "failed",
          response |-> ResponseSome(JObject({<<"error", JStr(result.message)>>}))]
    ELSE [status |-> "failed",
          response |-> ResponseSome(JObject({<<"error", JStr("Action timed out after 30s")>>}))]

error_msg_Raw(response) ==
    IF response.some /\ response.value.obj /\ "error" \in Keys(response.value)
    THEN (CHOOSE m \in response.value.members : m[1] = "error")[2].v
    ELSE "Unknown error"

\* response.as_ref().and_then(|r| r.get("error")).and_then(|e| e.as_str())
\*     .unwrap_or("Unknown error")
error_msg(response) ==
    IF response.some /\ response.value.obj /\ "error" \in Keys(response.value)
    THEN LET e == (CHOOSE m \in response.value.members : m[1] = "error")[2]
         IN IF e.t = "string" THEN e.v ELSE "Unknown error"
    ELSE "Unknown error"

\* state.modules.get(&action.action_type) and module.execute under the
\* timeout, with the module's result spelled out
execute_module(w) ==
    /\ worker_pc[w] = "execute"
    /\ LET action_type == ActionRow(worker_item[w].action_id).action_type
       IN IF action_type \in Registry
          THEN \E result \in ModuleResults :
                  LET sr == status_response(result)
                  IN /\ wk_result' = [wk_result EXCEPT ![w] = result]
                     /\ worker_status' = [worker_status EXCEPT ![w] =
                            [status |-> sr.status,
                             error |-> IF sr.status = "success" THEN NoError
                                       ELSE error_msg(sr.response)]]
          ELSE /\ wk_result' = [wk_result EXCEPT ![w] = NoModuleResult]
               /\ worker_status' = [worker_status EXCEPT ![w] =
                      [status |-> "failed", error |-> "Unknown module: " \o action_type]]
    /\ WorkerGoto(w, "log")
    /\ UNCHANGED <<now, action_queue, action_log, worker_lock, worker_item>>
    /\ UNCHANGED <<ingestVars, fieldVars, limiterVars, authVars, regVars, dashVars,
                   mailVars, ssrfVars, tplVars, hookVars, ipVars, poolVars>>
    /\ ExecOnly

\* one queue row for the webhook action of a submission; the action, the
\* submission and the endpoint are in the database
InitExecute ==
    /\ now = 0
    /\ action_queue = <<NewQueueRow(1, 1)>>
    /\ action_log = EmptyBag
    /\ worker_pc = [w \in Workers |-> "idle"]
    /\ worker_lock = [w \in Workers |-> NoRow]
    /\ worker_item = [w \in Workers |-> NoItem]
    /\ worker_status = [w \in Workers |-> NoStatus]
    /\ endpoint = EndpointRow
    /\ actions = ActionsTable
    /\ submissions = <<SubmissionRow(EmptyObject, EmptyObject, EmptyObject, NoRow)>>
    /\ limiter = <<>>
    /\ requests = <<>>
    /\ FieldsIdle
    /\ checks = <<>> /\ AuthIdle
    /\ tenants = <<>> /\ advisory_lock = NoHolder
    /\ DashIdle /\ MailIdle /\ SsrfIdle /\ MoreIdle

NextExecute ==
    \/ Tick
    \/ \E w \in Workers : claim_next_select(w)
    \/ \E w \in Workers : claim_next_update(w)
    \/ \E w \in Workers : find_action(w) /\ worker_pc'[w] # "idle"
    \/ \E w \in Workers : find_submission(w) /\ worker_pc'[w] # "idle"
    \/ \E w \in Workers : load_context(w)
    \/ \E w \in Workers : execute_module(w)
    \/ \E w \in Workers : log_result(w)
    \/ \E w \in Workers : mark_result(w)

SpecExecute == InitExecute /\ [][NextExecute]_vars

(* --------------------- properties of an execution ---------------------- *)
\* the status the claim gives the result: success for a success result,
\* failed for a failed result, a module error and a timeout
ClaimedStatus(result) ==
    IF result.kind = "ok" /\ result.status = "success" THEN "success" ELSE "failed"

\* the error the claim gives a result that is no success: the timeout's text,
\* the module error's message, the response's error string, "Unknown error"
\* when the response has none
ClaimedError(result) ==
    IF result.kind = "elapsed" THEN "Action timed out after 30s"
    ELSE IF result.kind = "err" THEN result.message
    ELSE IF \E m \in result.response.value.members :
               result.response.some /\ m[1] = "error" /\ m[2].t = "string"
    THEN (CHOOSE m \in result.response.value.members : m[1] = "error")[2].v
    ELSE "Unknown error"

\* the executions begun for the only row, and those whose ActionLog row has
\* been written
Executions ==
    action_queue[1].attempts
        - Cardinality({w \in Workers :
              worker_pc[w] \in {"find_action", "find_submission", "load_context", "execute"}})
Logged == Executions - Cardinality({w \in Workers : worker_pc[w] = "log"})

\* C32: every execution appends exactly one ActionLog row, of the action, the
\* submission and the result's status, and then applies exactly one
\* transition to the claimed row: mark_completed for a success, else
\* mark_failed with the response's error string, "Unknown error" when it has
\* none, and "Action timed out after 30s" for an execution over 30 seconds.
C32_OneLogThenOneMark ==
    /\ [](BagCardinality(action_log) = Logged)
    /\ [][\A w \in Workers :
            LET id == worker_item[w].id
                result == wk_result[w]
            IN /\ (worker_pc[w] = "log" /\ worker_pc'[w] # "log") =>
                    /\ worker_pc'[w] = "mark"
                    /\ action_queue' = action_queue
                    /\ action_log' = action_log (+) SetToBag({
                          LogRow(worker_item[w].action_id, worker_item[w].submission_id,
                                 ClaimedStatus(result), "worker")})
               /\ (worker_pc[w] = "mark" /\ worker_pc'[w] # "mark") =>
                    /\ worker_pc'[w] = "idle"
                    /\ action_log' = action_log
                    /\ action_queue[id].status = "processing"
                    /\ \A other \in RowIds \ {id} : action_queue'[other] = action_queue[other]
                    /\ IF ClaimedStatus(result) = "success"
                       THEN /\ action_queue'[id].status = "completed"
                            /\ action_queue'[id].completed_at = now
                       ELSE /\ action_queue'[id].status = "failed"
                            /\ action_queue'[id].last_error = ClaimedError(result)]_vars

\* a timed-out execution and one whose response has no error string have
\* been marked, and the third execution has been logged as a success
C32_Witness ==
    /\ \E w \in Workers : worker_pc[w] = "mark" /\ wk_result[w].status = "success"
    /\ action_queue[1].attempts = 3
    /\ BagCardinality(action_log) = 3
    /\ \E w \in Workers : wk_result[w].kind = "elapsed"

(* ------------------ the place of the rate check ------------------------ *)
\* this step is ingest starting on a request whose endpoint it has found
IngestArrives ==
    /\ Len(requests') = Len(requests) + 1
    /\ requests'[Len(requests')].response # Response(500, "Internal error")

\* the rate check's part of C33, which holds for the requests whose body
\* parses: each counts against the window and is answered 429 when the peer
\* is over its limit.
C33_ParsedRequestsChecked ==
    [][LET limit == UnwrapOr(endpoint.rate_limit, DefaultRateLimit)
           window == UnwrapOr(endpoint.rate_limit_window_secs, DefaultRateWindowSecs)
           key == <<EndpointId, Peer>>
       IN (IngestArrives /\ requests'[Len(requests')].response # Response(400, "parse error")) =>
            /\ limiter' = check_entries(key, limit, window)
            /\ ~check_admits(key, limit, window) =>
                 requests'[Len(requests')].response = Response(429, "Rate limited")]_vars

\* C33: the rate check comes first: every request to an existing endpoint
\* counts against the (endpoint, peer) window, and a request of a peer over
\* its limit is answered 429 whether or not its body parses.
C33_RateCheckFirst ==
    [][LET limit == UnwrapOr(endpoint.rate_limit, DefaultRateLimit)
           window == UnwrapOr(endpoint.rate_limit_window_secs, DefaultRateWindowSecs)
           key == <<EndpointId, Peer>>
       IN IngestArrives =>
            /\ limiter' = check_entries(key, limit, window)
            /\ ~check_admits(key, limit, window) =>
                 requests'[Len(requests')].response.status = 429]_vars

(* ------------------------ is_spam on bounded inputs -------------------- *)
JBool(text) == [t |-> "bool", v |-> text]
JObj(text) == [t |-> "object", v |-> text]

\* the values a payload may have at the honeypot key
HoneypotValues ==
    {JNull, JStr(""), JStr("x"), JStr(" "), JNum("0"), JBool("false"), JArr("[]"),
     JArr("[1]"), JObj("{}")}

\* the payloads: objects with or without the keys "website" and "", and
\* values that are no object
HoneypotPayloads ==
    {JObject({<<"name", JStr("x")>>} \cup site \cup blank) :
        site \in {{}} \cup {{<<"website", v>>} : v \in HoneypotValues},
        blank \in {{}, {<<"", JStr("x")>>}}}
      \cup {JOther(JStr("website")), JOther(JArr("[1]"))}

\* settings["honeypot_field"].as_str(): absent or no string, "", or a name
HoneypotFields == {NoHoneypot, Honeypot(""), Honeypot("website"), Honeypot("phone")}

honeypot_is_spam ==
    /\ hp_pc = "called"
    /\ hp_result' = is_spam(hp_data, hp_field)
    /\ hp_pc' = "returned"
    /\ UNCHANGED <<hp_data, hp_field>>
    /\ UNCHANGED <<queueVars, ingestVars, fieldVars, limiterVars, authVars, regVars, dashVars,
                   mailVars, ssrfVars, tplVars, hookVars, ipVars, poolVars>>
    /\ HpOnly

InitHoneypot ==
    /\ QueueIdle /\ IngestIdle /\ FieldsIdle
    /\ checks = <<>> /\ AuthIdle
    /\ tenants = <<>> /\ advisory_lock = NoHolder
    /\ DashIdle /\ MailIdle /\ SsrfIdle /\ TplIdle /\ HookIdle /\ IpIdle /\ PoolIdle
    /\ ExecIdle /\ ActIdle /\ PwIdle
    /\ hp_data \in HoneypotPayloads
    /\ hp_field \in HoneypotFields
    /\ hp_result = FALSE
    /\ hp_pc = "called"

NextHoneypot == honeypot_is_spam

SpecHoneypot == InitHoneypot /\ [][NextHoneypot]_vars

(* ------------------------- properties of is_spam ----------------------- *)
\* a honeypot field name is configured
Configured(field) == field.set /\ field.name # ""

\* the payload has a value at the key that is neither null nor the empty
\* string
NonEmptyAt(data, key) ==
    /\ data.obj
    /\ key \in Keys(data)
    /\ \A m \in data.members : m[1] = key => m[2] \notin {JNull, JStr("")}

\* C34: is_spam returns true exactly when a honeypot field name is configured
\* and the payload has a non-empty value at that key; with no honeypot
\* configured, or the key missing, null or the empty string, it returns false.
C34_SpamIffHoneypotFilled ==
    hp_pc = "returned" =>
        /\ hp_result = (Configured(hp_field) /\ NonEmptyAt(hp_data, hp_field.name))
        /\ ~hp_field.set => ~hp_result
        /\ (hp_field.set /\ hp_field.name \notin Keys(hp_data)) => ~hp_result

\* is_spam has flagged a payload whose honeypot value is the number 0
C34_Witness ==
    /\ hp_pc = "returned"
    /\ hp_field = Honeypot("website")
    /\ hp_result
    /\ <<"website", JNum("0")>> \in hp_data.members

(* ----------------------- the actions of an endpoint -------------------- *)
\* most rows ever inserted into table actions
MaxActions == 2

\* the position values of the requests
Positions == 0..2

\* CreateAction.position: Option<i32>
NoPosition == [some |-> FALSE, v |-> 0]
SomePosition(p) == [some |-> TRUE, v |-> p]

\* req.position.unwrap_or(0)
position_unwrap_or_0(option) == IF option.some THEN option.v ELSE 0

ActionsFrame ==
    /\ UNCHANGED <<endpoint, submissions, limiter, requests>>
    /\ UNCHANGED <<queueVars, fieldVars, limiterVars, authVars, regVars, dashVars, mailVars,
                   ssrfVars, tplVars, hookVars, ipVars, poolVars>>
    /\ ActOnly

\* routes::actions::create and db::actions::create for a registered type:
\* INSERT INTO actions (endpoint_id, action_type, config, position); the id
\* is new and enabled takes its column default
db_actions_create ==
    /\ actions_created < MaxActions
    /\ \E position \in {NoPosition} \cup {SomePosition(p) : p \in Positions} :
        actions' = Append(actions,
            [id |-> actions_created + 1, endpoint_id |-> EndpointId,
             position |-> position_unwrap_or_0(position), enabled |-> TRUE,
             action_type |-> "webhook"])
    /\ actions_created' = actions_created + 1
    /\ ActionsFrame

\* routes::actions::update and db::actions::update: UPDATE actions SET
\* action_type, config, position, enabled WHERE id = $1 (the config is not
\* modelled; a type without a module is not refused)
db_actions_update ==
    /\ \E i \in DOMAIN actions, position \in Positions, enabled \in BOOLEAN,
          action_type \in {"webhook", "sms"} :
        actions' = [actions EXCEPT ![i].position = position, ![i].enabled = enabled,
                                   ![i].action_type = action_type]
    /\ UNCHANGED actions_created
    /\ ActionsFrame

\* routes::actions::delete and db::actions::delete: DELETE FROM actions WHERE id = $1
db_actions_delete ==
    /\ \E i \in DOMAIN actions :
        actions' = SubSeq(actions, 1, i - 1) \o SubSeq(actions, i + 1, Len(actions))
    /\ UNCHANGED actions_created
    /\ ActionsFrame

\* an endpoint without actions
InitActions ==
    /\ QueueIdle
    /\ endpoint = EndpointRow
    /\ actions = <<>>
    /\ submissions = <<>>
    /\ limiter = <<>>
    /\ requests = <<>>
    /\ FieldsIdle
    /\ checks = <<>> /\ AuthIdle
    /\ tenants = <<>> /\ advisory_lock = NoHolder
    /\ DashIdle /\ MailIdle /\ SsrfIdle /\ MoreIdle

NextActions ==
    \/ db_actions_create
    \/ db_actions_update
    \/ db_actions_delete

SpecActions == InitActions /\ [][NextActions]_vars

(* ------------------- properties of the action chain -------------------- *)
\* the rows of the endpoint have pairwise distinct positions
DistinctPositions ==
    \A i, j \in DOMAIN actions :
        (actions[i].endpoint_id = actions[j].endpoint_id
            /\ actions[i].position = actions[j].position) => i = j

\* every order list_enabled_ordered may return is ascending in position, and
\* in id among rows of one position
OrderedByPositionThenId ==
    \A seq \in list_enabled_ordered : \A i, j \in DOMAIN seq :
        i < j =>
            \/ ActionRow(seq[i]).position < ActionRow(seq[j]).position
            \/ /\ ActionRow(seq[i]).position = ActionRow(seq[j]).position
               /\ seq[i] < seq[j]

\* C35: after any sequence of create, update and delete requests the actions
\* of the endpoint have pairwise distinct positions, and they are dispatched
\* in ascending position, ties broken by id.
C35_DistinctPositionsOrdered == DistinctPositions /\ OrderedByPositionThenId

\* the part of C35 that holds: the dispatch order is ascending in position.
C35_AscendingPosition ==
    \A seq \in list_enabled_ordered : \A i, j \in DOMAIN seq :
        i < j => ActionRow(seq[i]).position <= ActionRow(seq[j]).position

(* -------------------- rows left in processing -------------------------- *)
\* C36: every row in processing is held by a running worker that is on its
\* way to mark_completed or mark_failed, so that every claimed row leaves
\* processing, a failed load of the action or the submission included.
C36_ProcessingIsHeld ==
    \A id \in RowIds :
        action_queue[id].status = "processing" => \E w \in Workers : Holds(w, id)

\* C36 without the database errors, which holds: a processing row is held
\* unless a worker returned from process_next on a failed statement.
C36_HeldUnlessLoadFailed ==
    [][\A id \in RowIds : \A w \in Workers :
        (Holds(w, id) /\ ~Holds(w, id)' /\ action_queue'[id].status = "processing")
            => /\ worker_pc[w] \in {"find_action", "find_submission"}
               /\ worker_pc'[w] = "idle"]_vars

(* ----------------------- properties of the sweeper --------------------- *)
\* the window of key's entry is still in force at the next state's clock
WindowOpenNext(key) == now' - limiter[key].start <= RateWindow

\* the sweeper leaves the limiter as strict as it was: a step removes only
\* entries whose window has elapsed, and a key that is denied stays denied
\* while its window lasts
SweeperKeepsLimit ==
    \A key \in DOMAIN limiter :
        /\ key \notin DOMAIN limiter' => now - limiter[key].start > RateWindow
        /\ (~check_admits(key, RateLimit, RateWindow) /\ WindowOpenNext(key))
             => (~check_admits(key, RateLimit, RateWindow))'

\* C37: for every window length, cleanup removes only entries whose window
\* has elapsed and a key that has reached its limit stays denied until its
\* own window ends.
C37_SweeperNeverAdmitsMore == [][SweeperKeepsLimit]_vars

\* C37 for the windows shorter than the sweeper's max age, which holds.
C37_ShortWindowsKept == [][RateWindow < SweepMaxAge => SweeperKeepsLimit]_vars

(* ------------------ concurrent logins for one email -------------------- *)
\* C38: under any interleaving of login requests for one email at most five
\* wrong-password verdicts are given inside one 15-minute window, and the
\* stored failure count does not pass 5.
C38_AtMostFiveVerifications ==
    /\ \A key \in DOMAIN login_failures : login_failures[key].count <= LoginMaxFailures
    /\ \A key \in DOMAIN login_limiter : login_limiter[key].count <= LoginMaxFailures

\* C38 for requests that do not overlap, which holds: a wrong-password
\* verdict takes the count past 5 only when the request passed its check
\* before an earlier failure of the window was recorded.
C38_SequentialWithinFive ==
    [][\A c \in Clients :
        (WrongPasswordVerdict(c) /\ login_failures'[to_lowercase(calls[c].email)].count
                                        > LoginMaxFailures)
            => ~calls[c].locked /\ FailureLocked(to_lowercase(calls[c].email))]_vars

(* ------------------ disabling an action under the workers -------------- *)
\* the pipeline's step 8 as the spec has it: a queue row for an enabled
\* action of the endpoint
enqueue_enabled ==
    \E submission_id \in SubmissionIds, i \in DOMAIN actions :
        /\ actions[i].enabled
        /\ enqueue(submission_id, actions[i].id)

\* an update request that changes nothing but the enabled flag
update_enabled ==
    /\ db_actions_update
    /\ \A i \in DOMAIN actions :
        /\ actions'[i].position = actions[i].position
        /\ actions'[i].action_type = actions[i].action_type

\* a delete request that arrives while no worker holds a loaded copy of the
\* row (process_next keeps its copy in a local; the model reads the table)
delete_unheld ==
    /\ db_actions_delete
    /\ \A w \in Workers :
        worker_pc[w] \in {"find_submission", "load_context", "execute", "log", "mark"}
        => \E i \in DOMAIN actions' : actions'[i].id = worker_item[w].action_id

\* the endpoint has its webhook action, enabled
InitDisable ==
    /\ QueueIdle
    /\ endpoint = EndpointRow
    /\ actions = SubSeq(ActionsTable, 1, 1)
    /\ submissions = <<SubmissionRow(EmptyObject, EmptyObject, EmptyObject, NoRow)>>
    /\ limiter = <<>>
    /\ requests = <<>>
    /\ FieldsIdle
    /\ checks = <<>> /\ AuthIdle
    /\ tenants = <<>> /\ advisory_lock = NoHolder
    /\ DashIdle /\ MailIdle /\ SsrfIdle /\ MoreIdle

NextDisable ==
    \/ enqueue_enabled
    \/ update_enabled
    \/ delete_unheld
    \/ Tick
    \/ \E w \in Workers : claim_next_select(w)
    \/ \E w \in Workers : claim_next_update(w)
    \/ \E w \in Workers : find_action(w) /\ worker_pc'[w] # "idle"
    \/ \E w \in Workers : find_submission(w) /\ worker_pc'[w] # "idle"
    \/ \E w \in Workers : load_context(w)
    \/ \E w \in Workers : mark_failed_missing(w)
    \/ \E w \in Workers : log_missing(w)
    \/ \E w \in Workers : execute(w)
    \/ \E w \in Workers : log_result(w)
    \/ \E w \in Workers : mark_result(w)

SpecDisable == InitDisable /\ [][NextDisable]_vars

(* ------------------- properties of disabled actions -------------------- *)
\* this step is worker w running the module of the action of its item
Executes(w) == worker_pc[w] = "execute" /\ worker_pc'[w] = "log"

\* C39: no worker executes an action whose row is gone or has enabled =
\* false, whenever the queue row was created.
C39_DisabledNeverExecuted ==
    [][\A w \in Workers :
        Executes(w) =>
            \E i \in DOMAIN actions :
                actions[i].id = worker_item[w].action_id /\ actions[i].enabled]_vars

\* C39 for deleted actions when the row is gone before the worker loads it,
\* which holds: the worker that finds no row executes nothing.
C39_MissingNeverExecuted ==
    [][\A w \in Workers :
        (worker_pc[w] = "find_action" /\ worker_pc'[w] # "find_action"
            /\ \A i \in DOMAIN actions : actions[i].id # worker_item[w].action_id)
        => worker_pc'[w] = "action_missing"]_vars

(* --------------------------- password changes -------------------------- *)
\* the handlers that set a user's password
PasswordOps == {"change_password", "reset_password", "reset_member_password"}

\* the passwords the requests carry as new password
NewPasswords == {"short", "changed456"}

\* the passwords change_password requests carry as current password
CurrentPasswords == {"secret123", "changed456", "wrong"}

\* db::users::update_password
update_password(id, password_hash) == [users EXCEPT ![id].password_hash = password_hash]

\* db::password_reset_tokens::find_valid_by_hash
find_valid_by_hash(token_hash) ==
    {row \in password_reset_tokens :
        row.token_hash = token_hash /\ ~row.used /\ row.expires_at > now}

\* db::password_reset_tokens::mark_used
reset_mark_used(row) ==
    {IF r = row THEN [r EXCEPT !.used = TRUE] ELSE r : r \in password_reset_tokens}

\* what the password handlers leave alone
PasswordFrame ==
    /\ UNCHANGED <<login_limiter, login_failures, system_mailer, tasks, outbox>>
    /\ UNCHANGED <<queueVars, ingestVars, fieldVars, limiterVars, regVars, dashVars, ssrfVars,
                   tplVars, hookVars, ipVars, poolVars>>
    /\ PwOnly

\* a password request is answered before any row is written
PasswordRefused(c, call, response) ==
    /\ calls' = [calls EXCEPT ![c] = [call EXCEPT !.response = response]]
    /\ UNCHANGED <<users, password_reset_tokens>>

\* change_password up to update_password: the length check, the user of the
\* access token, the verification of the current password, the new hash
change_password_update(c) ==
    /\ TokenReady(c)
    /\ \E current_password \in CurrentPasswords, new_password \in NewPasswords,
          user_id \in DOMAIN users :
        LET call == [NoCall EXCEPT !.op = "change_password", !.password = new_password,
                                   !.user = user_id]
        IN IF PasswordLen(new_password) < 8
           THEN PasswordRefused(c, call,
                    AppError("BadRequest", "Password must be at least 8 characters"))
           ELSE IF ~password_verify(current_password, users[user_id].password_hash)
           THEN PasswordRefused(c, call,
                    AppError("Unauthorized", "Current password is incorrect"))
           ELSE /\ users' = update_password(user_id, PasswordHash(new_password))
                /\ calls' = [calls EXCEPT ![c] = [call EXCEPT !.pc = "delete_all"]]
                /\ UNCHANGED password_reset_tokens
    /\ started' = started + 1
    /\ UNCHANGED <<refresh_tokens, issued, superseded>>
    /\ PasswordFrame

\* reset_password up to update_password: the length check, find_valid_by_hash,
\* mark_used, the new hash
reset_password_update(c) ==
    /\ TokenReady(c)
    /\ \E token \in DOMAIN issued, new_password \in NewPasswords :
        LET rows == find_valid_by_hash(hash_token(token))
            reset_token == CHOOSE row \in rows : TRUE
            call == [NoCall EXCEPT !.op = "reset_password", !.password = new_password,
                                   !.token = token]
        IN IF PasswordLen(new_password) < 8
           THEN PasswordRefused(c, call,
                    AppError("BadRequest", "Password must be at least 8 characters"))
           ELSE IF rows = {}
           THEN PasswordRefused(c, call,
                    AppError("BadRequest", "Invalid or expired reset token"))
           ELSE /\ password_reset_tokens' = reset_mark_used(reset_token)
                /\ users' = update_password(reset_token.user_id, PasswordHash(new_password))
                /\ calls' = [calls EXCEPT ![c] =
                      [call EXCEPT !.pc = "delete_all", !.user = reset_token.user_id]]
    /\ started' = started + 1
    /\ UNCHANGED <<refresh_tokens, issued, superseded>>
    /\ PasswordFrame

\* the roles and tenants of the callers of reset_member_password, and the
\* ids of its path
CallerRoles == {"owner", "member"}
CallerTenants == {1, 2}
MemberIds == {1, 2}

\* reset_member_password up to update_password: require_owner_or_admin, the
\* length check, the member of the caller's tenant, the new hash
reset_member_password_update(c) ==
    /\ TokenReady(c)
    /\ \E role \in CallerRoles, is_system_admin \in BOOLEAN, tenant_id \in CallerTenants,
          id \in MemberIds, new_password \in NewPasswords :
        LET call == [NoCall EXCEPT !.op = "reset_member_password",
                                   !.password = new_password, !.user = id]
        IN IF ~(is_system_admin \/ role = "owner")
           THEN PasswordRefused(c, call,
                    AppError("Forbidden", "Owner or admin access required"))
           ELSE IF PasswordLen(new_password) < 8
           THEN PasswordRefused(c, call,
                    AppError("BadRequest", "Password must be at least 8 characters"))
           ELSE IF id \notin DOMAIN users \/ users[id].tenant_id # tenant_id
           THEN PasswordRefused(c, call, AppError("NotFound", "User not found"))
           ELSE /\ users' = update_password(id, PasswordHash(new_password))
                /\ calls' = [calls EXCEPT ![c] = [call EXCEPT !.pc = "delete_all"]]
                /\ UNCHANGED password_reset_tokens
    /\ started' = started + 1
    /\ UNCHANGED <<refresh_tokens, issued, superseded>>
    /\ PasswordFrame

\* the refresh tokens generated for a user so far
IssuedTo(user_id) ==
    {n \in DOMAIN issued : issued[n].user_id = user_id /\ issued[n].op # "forgot_password"}

\* the three handlers: delete_all_for_user; reset_password and
\* reset_member_password answer 200, change_password goes on to its tokens
password_delete_all(c) ==
    /\ calls[c].op \in PasswordOps /\ calls[c].pc = "delete_all"
    /\ refresh_tokens' = delete_all_for_user(calls[c].user)
    /\ superseded' = superseded \cup IssuedTo(calls[c].user)
    /\ IF calls[c].op = "change_password"
       THEN SetCall(c, [pc |-> "issue"])
       ELSE SetCall(c, [pc |-> "done", response |-> Response(200, "Password reset")])
    /\ UNCHANGED <<users, started, issued, password_reset_tokens>>
    /\ PasswordFrame

\* change_password: "Issue fresh tokens"
change_password_issue(c) ==
    /\ calls[c].op = "change_password" /\ calls[c].pc = "issue"
    /\ create_refresh_token(calls[c].user, "change_password", NoCookie)
    /\ SetCall(c, [pc |-> "done", granted |-> NextToken, response |-> Granted(NextToken)])
    /\ UNCHANGED <<users, started, password_reset_tokens, superseded>>
    /\ PasswordFrame

\* a user who has logged in and has received a reset link
InitPassword ==
    /\ QueueIdle /\ IngestIdle /\ FieldsIdle
    /\ checks = <<>>
    /\ users = <<AdminUser>>
    /\ refresh_tokens = {[id |-> 1, user_id |-> 1, token_hash |-> hash_token(1),
                           used |-> FALSE, expires_at |-> RefreshTtlSecs]}
    /\ login_limiter = <<>>
    /\ calls = [c \in Clients |-> NoCall]
    /\ started = 0
    /\ login_failures = <<>>
    /\ issued = <<NewIssued(1, "login", NoCookie), NewIssued(1, "forgot_password", NoCookie)>>
    /\ tenants = <<AdminTenant>> /\ advisory_lock = NoHolder
    /\ DashIdle /\ SsrfIdle /\ MoreIdle
    /\ system_mailer = TRUE
    /\ password_reset_tokens = {[user_id |-> 1, token_hash |-> hash_token(2),
                                  expires_at |-> ResetTtlSecs, used |-> FALSE]}
    /\ tasks = EmptyBag
    /\ outbox = {[to |-> AdminUser.email, token |-> 2]}

NextPassword ==
    \/ \E c \in Clients : refresh_find(c)
    \/ \E c \in Clients : refresh_revoke(c)
    \/ \E c \in Clients : refresh_mark(c)
    \/ \E c \in Clients : refresh_issue(c)
    \/ \E c \in Clients : change_password_update(c)
    \/ \E c \in Clients : reset_password_update(c)
    \/ \E c \in Clients : reset_member_password_update(c)
    \/ \E c \in Clients : password_delete_all(c)
    \/ \E c \in Clients : change_password_issue(c)
    \/ refresh_elapse

SpecPassword == InitPassword /\ [][NextPassword]_vars

(* -------------------- properties of password changes ------------------- *)
\* a change_password request for the user has deleted the rows and has not
\* yet stored its own token
ChangeInFlight(user_id) ==
    \E c \in Clients :
        calls[c].op = "change_password" /\ calls[c].pc = "issue" /\ calls[c].user = user_id

\* C40: once change_password, reset_password or reset_member_password has
\* succeeded for a user, no refresh request that presents a token generated
\* for the user before the change receives tokens, however the requests
\* interleave: every token exchanged for such a token was generated before
\* the change as well.
C40_OldTokensNeverAccepted ==
    \A n \in DOMAIN issued :
        (issued[n].op = "refresh" /\ issued[n].from \in superseded
            /\ ~ChangeInFlight(issued[n].user_id))
        => n \in superseded

\* C40 for the refresh requests that arrive after the change, which holds:
\* a request that presents a token of before the change is answered 401.
C40_PresentedAfterChangeRefused ==
    [][\A c \in Clients :
        (calls[c].pc = "done" /\ calls'[c] # calls[c] /\ calls'[c].op = "refresh"
            /\ calls'[c].token \in superseded)
        => calls'[c].pc = "done" /\ calls'[c].response.status = 401]_vars

====
